---- MODULE Spec2Model ----
(***************************************************************************)
(* Model of the Salesforce client of connectors/sources/salesforce.py:     *)
(* the bearer token and its refresh lock (SalesforceAPIToken), the         *)
(* authenticated GET with its retry policy and its classification of HTTP  *)
(* failures (SalesforceClient._get_json, _handle_client_response_error),   *)
(* and the page stream of one query (_yield_non_bulk_query_pages).         *)
(*                                                                         *)
(* A task is one asyncio task calling into the client.  A step of the      *)
(* model runs a task from one suspension point (an awaited HTTP exchange   *)
(* or a retry sleep) to the next: asyncio runs the code in between without *)
(* interleaving.  The remote endpoints are the environment: every response *)
(* is drawn from a small set.                                              *)
(***************************************************************************)
EXTENDS Integers, Sequences, FiniteSets, TLC

\* ------------------------------------------------------------------ bounds
\* Tokens the token endpoint issues in one run (each issued token is new).
MaxTokens == 2
\* Entries in the error list of a 4xx response body.
MaxErrors == 2
\* Pages the query endpoint serves to one stream.
MaxPages == 3
\* Pages of one query's results during a run of get_docs.
MaxSyncPages == 2
\* aiohttp sessions one client instance creates.
MaxSessions == 2
\* Fields added to one query builder, repeated ones counted.
MaxBuilderFields == 3
\* Candidate fields in one call of _select_queryable_fields.
MaxCandidates == 2

\* ------------------------------------------------------- program constants
RETRIES == 3
\* SalesforceAPIToken._token = None
NoToken == 0

\* The asyncio tasks.  Session is the task that runs
\* SalesforceDataSource.get_docs: it acquires the first token and is the
\* single consumer of the page stream.
Callers == {"t1", "t2"}
Session == "t1"

\* threading.Lock: free, or held by the task inside generate()
Free == "free"

NoExc == "none"
NoUrl == "None"
NoParams == "None"
QueryUrl == "query"
DescribeUrl == "describe"
NextUrls == {"U2", "U3"}
Queries == {"q=SOQL"}
Range(s) == {s[i] : i \in DOMAIN s}

\* ---------------------------------------------------------- the environment
ErrorCodeNames ==
    {"REQUEST_LIMIT_EXCEEDED", "INVALID_FIELD", "INVALID_TERM", "MALFORMED_QUERY", "NOT_FOUND"}
ErrorEntries == {[errorCode |-> c] : c \in ErrorCodeNames}
SeqsUpTo(S, n) == UNION {[1..k -> S] : k \in 0..n}
ErrorLists == SeqsUpTo(ErrorEntries, MaxErrors)

Batches == {<<"a", "b">>, <<"c">>}
\* The done flag of a query response: JSON true, JSON false, no such key, or a
\* value that is not a boolean.
DoneValues == {"True", "False", "absent", "1"}
NoNext == "absent"
NextValues == NextUrls \cup {NoNext}

NoResp == [kind |-> "none", status |-> 0, absent |-> TRUE, errors |-> <<>>,
           records |-> <<>>, done |-> "absent", next |-> NoNext]
HttpResp(s, a, errs, recs, d, n) ==
    [kind |-> "http", status |-> s, absent |-> a, errors |-> errs,
     records |-> recs, done |-> d, next |-> n]
\* The request never got an HTTP response: aiohttp raised something that is
\* not a ClientResponseError.
TransportError == [NoResp EXCEPT !.kind = "transport"]
OkResponses ==
    {HttpResp(200, FALSE, <<>>, recs, d, n) : recs \in Batches, d \in DoneValues, n \in NextValues}
ClientErrorStatuses == {400, 403}
ClientErrorResponses ==
    {HttpResp(s, FALSE, errs, <<>>, "absent", NoNext) : s \in ClientErrorStatuses, errs \in ErrorLists}
      \cup {HttpResp(s, TRUE, <<>>, <<>>, "absent", NoNext) : s \in ClientErrorStatuses}
Unauthorized == HttpResp(401, TRUE, <<>>, <<>>, "absent", NoNext)
ServerError == HttpResp(500, TRUE, <<>>, <<>>, "absent", NoNext)
\* The body of a describe response is not looked at by _get_json
DescribeResponse == HttpResp(200, FALSE, <<>>, <<>>, "absent", NoNext)
\* What a single _get_json call can be answered
Responses ==
    {DescribeResponse, Unauthorized, ServerError, TransportError} \cup ClientErrorResponses
\* What the fetches of a page stream are answered
PageResponses == OkResponses \cup {ServerError, TransportError}
\* What concurrent _get_json calls are answered
CoarseResponses == {DescribeResponse, Unauthorized, ServerError}

\* Token endpoint: {access_token} on success, {error: ...} on failure
TokenResponses ==
    {[kind |-> "http", status |-> s, error |-> e] :
        s \in {200, 400, 500}, e \in {"invalid_client", "invalid_grant"}}
      \cup {[kind |-> "transport", status |-> 0, error |-> "invalid_grant"]}

NoTokenResp == [kind |-> "none", status |-> 0, error |-> "none"]

\* ------------------------------------------------------------------- state
VARIABLES
    task,      \* per task: where it is in get_token / _get_json / the page stream
    token,     \* SalesforceAPIToken._token
    lock,      \* SalesforceAPIToken.lock
    issued,    \* tokens the token endpoint has issued so far
    started,   \* the top-level get_token() of get_docs has returned
    yielded,   \* record batches the page stream has yielded, in order
    served,    \* history: pages the query endpoint has served to the stream
    obs,       \* history: what the session task's current operation has seen
    client,    \* SalesforceClient: the three memoised lookups
    sync,      \* where SalesforceClient.get_docs is, with its local variables
    docs,      \* the documents get_docs has yielded, in order
    calls,     \* history: how often get_docs has called _get_json for a url or a query
    http,      \* SalesforceClient.session: the aiohttp sessions created and closed
    describe,  \* what the server's describe endpoints answer in this session
    builder,   \* a SalesforceSoqlBuilder
    result     \* history: the last call of a lookup or of build(), and what it returned

vars ==
    <<task, token, lock, issued, started, yielded, served, obs, client, sync, docs, calls,
      http, describe, builder, result>>
\* The session, and the state of the checks of single functions
auxVars == <<http, describe, builder, result>>
\* The program state of the token and of the requests
coreVars == <<task, token, lock, issued, started, yielded>>
\* The state of get_docs and of the memoised lookups
syncVars == <<client, sync, docs, calls>>

\* reqs counts the requests _get has sent for the current _get_json call;
\* locked: the last generate() of the task raised LockedException
IdleTask ==
    [pc |-> "idle", op |-> "none", url |-> NoUrl, params |-> NoParams,
     retry |-> 1, tretry |-> 1, reqs |-> 0,
     sentTok |-> NoToken, sentUrl |-> NoUrl, sentParams |-> NoParams,
     page |-> NoResp, errorCodes |-> <<>>, exc |-> NoExc, locked |-> FALSE]

\* resp: the last response; transient: attempts of the call that failed with a
\* 5xx, a transport error or an uncategorised 4xx; after401, rej*: the last
\* response was a 401, and the request it rejected; invalid: the token
\* endpoint has rejected the client identity; posts: token exchanges of the
\* operation; sent, failed: requests and failed requests of the page stream;
\* tokResp: the last answer of the token endpoint
NoObs ==
    [resp |-> NoResp, transient |-> 0, after401 |-> FALSE,
     rejTok |-> NoToken, rejUrl |-> NoUrl, rejParams |-> NoParams,
     invalid |-> FALSE, posts |-> 0, sent |-> 0, failed |-> 0, tokResp |-> NoTokenResp]

\* ------------------------------------------------- the retry policy (utils)
\* connectors.utils.retryable: the wrapped call is attempted up to `retries`
\* times; an exception of a skipped class, or of the last attempt, is raised
\* to the caller, any other one is followed by a sleep and a new attempt.
retryable_raises(retry, exc, skipped_exceptions) ==
    retry >= RETRIES \/ exc \in skipped_exceptions

GetTokenSkipped == {"InvalidCredentialsException"}
\* Mutant: RequestError is skipped by the retry wrapper as well
GetJsonSkipped_with_RequestError ==
    {"RateLimitedException", "InvalidQueryException", "RequestError"}
GetJsonSkipped == {"RateLimitedException", "InvalidQueryException"}

\* ------------------------------------------------------ SalesforceAPIToken
\* Mutant: the lock is always acquired
non_blocking_lock_always(l) == TRUE
\* Lock.acquire(blocking=False): whether the lock was acquired
non_blocking_lock(l) == l = Free

\* Mutant: the lock is released only when generate() set a token
non_blocking_lock_exit_on_success(l, e) == IF e = NoExc THEN Free ELSE l
\* finally: self.lock.release(), whatever exception e left the with block
non_blocking_lock_exit(l, e) == Free

\* Mutant: a 5xx of the token endpoint is raised as it came
generate_exception_5xx_as_is(r) ==
    IF r.kind # "http" THEN "Exception"
    ELSE IF r.status < 400 THEN NoExc
    ELSE IF 400 <= r.status /\ r.status < 500
         THEN IF r.error = "invalid_client"
              THEN "InvalidCredentialsException"
              ELSE "TokenFetchException"
         ELSE "ClientResponseError"
\* The exception generate() raises for a response of the token endpoint
\* (NoExc: none, the token is set)
generate_exception(r) ==
    IF r.kind # "http" THEN "Exception"
    ELSE IF r.status < 400 THEN NoExc
    ELSE IF 400 <= r.status /\ r.status < 500
         THEN IF r.error = "invalid_client"
              THEN "InvalidCredentialsException"
              ELSE "TokenFetchException"
         ELSE "TokenFetchException"

\* ------------------------------------------- classification of 4xx and 5xx
handle_response_body_error(absent, error_list) ==
    IF absent \/ Len(error_list) < 1 THEN <<[errorCode |-> "unknown"]>> ELSE error_list

error_codes_of(errors) == [i \in DOMAIN errors |-> errors[i].errorCode]

InvalidQueryCodes == {"INVALID_FIELD", "INVALID_TERM", "MALFORMED_QUERY"}

\* Python's bool == str: a bool never equals a str
py_bool_eq_str(b, s) == FALSE
\* any(error in error_codes for error in [...]) in error_codes: the bool that
\* any() returns is looked up among the error codes, which are strings
any_in_error_codes(error_codes) ==
    LET any == \E e \in InvalidQueryCodes : e \in Range(error_codes)
    IN  \E i \in DOMAIN error_codes : py_bool_eq_str(any, error_codes[i])

\* Mutant: a 5xx is swallowed by the handler instead of raised
handle_client_response_error_swallows_5xx(status, error_codes) ==
    IF 400 <= status /\ status < 500
    THEN IF "REQUEST_LIMIT_EXCEEDED" \in Range(error_codes)
         THEN "RateLimitedException"
         ELSE IF any_in_error_codes(error_codes)
              THEN "InvalidQueryException"
              ELSE "RequestError"
    ELSE NoExc

\* Mutant: the invalid-query codes are looked for before the rate limit
handle_client_response_error_invalid_first(status, error_codes) ==
    IF 400 <= status /\ status < 500
    THEN IF InvalidQueryCodes \cap Range(error_codes) # {}
         THEN "InvalidQueryException"
         ELSE IF "REQUEST_LIMIT_EXCEEDED" \in Range(error_codes)
              THEN "RateLimitedException"
              ELSE "RequestError"
    ELSE "ClientResponseError"

\* The exception _handle_client_response_error raises for a status other
\* than 401 (every branch raises)
handle_client_response_error(status, error_codes) ==
    IF 400 <= status /\ status < 500
    THEN IF "REQUEST_LIMIT_EXCEEDED" \in Range(error_codes)
         THEN "RateLimitedException"
         ELSE IF any_in_error_codes(error_codes)
              THEN "InvalidQueryException"
              ELSE "RequestError"
    ELSE "ClientResponseError"

\* Mutant: a 403 is taken for an expired token as well
is_unauthorized_or_forbidden(status) == status \in {401, 403}
\* if e.status == 401
is_unauthorized(status) == status = 401

\* f"Bearer {self.api_token.token()}": the header carries whatever token()
\* returns, None included
auth_headers(tok) == tok

\* response.get("nextRecordsUrl"): None when the key is missing
next_records_url(r) == IF r.next = NoNext THEN NoUrl ELSE r.next

\* Mutant: no done flag ends the stream
done_is_true_never(d) == FALSE
\* Mutant: a missing done flag does not count as done
done_is_true_no_default(d) == d = "True"
\* response.get("done", True) is True
done_is_true(d) == (IF d = "absent" THEN "True" ELSE d) = "True"

\* ------------------------------------------------ a task's control flow
\* _get: one request is sent with the token of this moment
get(t, tok) ==
    [t EXCEPT !.pc = "await", !.reqs = @ + 1, !.sentTok = auth_headers(tok),
              !.sentUrl = t.url, !.sentParams = t.params,
              !.errorCodes = <<>>, !.exc = NoExc, !.locked = FALSE]

\* An exception leaves the body of _get_json: its retry wrapper decides
get_json_raises(t, e) ==
    IF retryable_raises(t.retry, e, GetJsonSkipped)
    THEN [t EXCEPT !.pc = "done", !.exc = e]
    ELSE [t EXCEPT !.pc = "gj_sleep", !.exc = e]

\* get_token returns normally: to get_docs, or to the 401 handler, which
\* raises the 401 to continue with the retry strategy
get_token_returns(t) ==
    IF t.op = "get_token"
    THEN [t EXCEPT !.pc = "done", !.exc = NoExc]
    ELSE get_json_raises(t, "ClientResponseError")

\* get_token raises e: to get_docs, or through the 401 handler out of the
\* body of _get_json
get_token_raises(t, e) ==
    IF t.op = "get_token"
    THEN [t EXCEPT !.pc = "done", !.exc = e]
    ELSE get_json_raises(t, e)

\* generate() raised e (not LockedException): the retry wrapper of get_token
generate_raises(t, e) ==
    IF retryable_raises(t.tretry, e, GetTokenSkipped)
    THEN get_token_raises(t, e)
    ELSE [t EXCEPT !.pc = "gt_sleep", !.exc = e]

\* Mutant: get_token has no handler for LockedException
get_token_except_all_alike(t, e) == generate_raises(t, e)
\* The except clauses of get_token: LockedException is logged and the loop
\* left (get_token returns), anything else is raised again
get_token_except(t, e) ==
    IF e = "LockedException"
    THEN [get_token_returns(t) EXCEPT !.locked = TRUE]
    ELSE generate_raises(t, e)

\* get_token calls generate(): with the lock, the POST to the token endpoint
\* is sent; without it, LockedException is raised at once.  The task and
\* the lock afterwards.
generate(t, c, l) ==
    IF non_blocking_lock(l)
    THEN [task |-> [t EXCEPT !.pc = "gen_wait", !.locked = FALSE], lock |-> c]
    ELSE [task |-> get_token_except(t, "LockedException"), lock |-> l]

\* --------------------------------------------------- the client's actions
\* SalesforceDataSource.get_docs: await self.salesforce_client.get_token()
GetToken(c) ==
    /\ c = Session
    /\ ~started
    /\ task[c].pc = "idle"
    /\ LET g == generate([IdleTask EXCEPT !.op = "get_token"], c, lock)
       IN  /\ task' = [task EXCEPT ![c] = g.task]
           /\ lock' = g.lock
    /\ UNCHANGED <<token, issued, started, yielded>>

\* The token endpoint answers the POST of generate(); the lock is released
\* on every way out
TokenResponse(c, r) ==
    /\ task[c].pc = "gen_wait"
    /\ LET e == generate_exception(r)
       IN  IF e = NoExc
           THEN /\ issued < MaxTokens
                /\ issued' = issued + 1
                /\ token' = issued + 1
                /\ task' = [task EXCEPT ![c] = get_token_returns(task[c])]
           ELSE /\ task' = [task EXCEPT ![c] = get_token_except(task[c], e)]
                /\ UNCHANGED <<token, issued>>
    /\ lock' = non_blocking_lock_exit(lock, generate_exception(r))
    /\ UNCHANGED <<started, yielded>>

\* The retry sleep of get_token is over: the next attempt
GetTokenWake(c) ==
    /\ task[c].pc = "gt_sleep"
    /\ LET g == generate([task[c] EXCEPT !.tretry = @ + 1], c, lock)
       IN  /\ task' = [task EXCEPT ![c] = g.task]
           /\ lock' = g.lock
    /\ UNCHANGED <<token, issued, started, yielded>>

\* A call of _get_json(url, params) outside a page stream (a describe
\* request)
GetJson(c, url, params) ==
    /\ started
    /\ task[c].pc = "idle"
    /\ task' = [task EXCEPT ![c] =
                    get([IdleTask EXCEPT !.op = "get_json", !.url = url, !.params = params], token)]
    /\ UNCHANGED <<token, lock, issued, started, yielded>>

\* _yield_non_bulk_query_pages(soql_query): the first fetch
StreamPages(c, q) ==
    /\ started
    /\ c = Session
    /\ task[c].pc = "idle"
    /\ task' = [task EXCEPT ![c] =
                    get([IdleTask EXCEPT !.op = "stream", !.url = QueryUrl, !.params = q], token)]
    /\ yielded' = <<>>
    /\ UNCHANGED <<token, lock, issued, started>>

\* The response to the request of _get arrives: the body of _get_json up to
\* its next suspension, with _handle_client_response_error
ResponseTask(c, r) ==
    /\ task[c].pc = "await"
    /\ r.kind \in {"http", "transport"}
    \* session.get(None) raises before anything is sent
    /\ task[c].sentUrl = NoUrl => r.kind = "transport"
    /\ LET t == task[c]
       IN  IF r.kind = "transport"
           THEN /\ task' = [task EXCEPT ![c] = get_json_raises(t, "Exception")]
                /\ UNCHANGED <<token, lock>>
           ELSE IF r.status < 400
           THEN \* return response_body
                /\ task' = [task EXCEPT ![c] =
                                [t EXCEPT !.pc = IF t.op = "stream" THEN "yielded" ELSE "done",
                                          !.page = r]]
                /\ UNCHANGED <<token, lock>>
           ELSE IF is_unauthorized(r.status)
           THEN \* self.api_token.clear(); await self.get_token(); raise e
                LET g == generate([t EXCEPT !.tretry = 1], c, lock)
                IN  /\ token' = NoToken
                    /\ task' = [task EXCEPT ![c] = g.task]
                    /\ lock' = g.lock
           ELSE LET codes == error_codes_of(handle_response_body_error(r.absent, r.errors))
                    e == handle_client_response_error(r.status, codes)
                    t1 == [t EXCEPT !.errorCodes = IF r.status < 500 THEN codes ELSE <<>>]
                IN  /\ task' = [task EXCEPT ![c] =
                                    IF e = NoExc
                                    THEN get(t1, token)     \* the while True of _get_json
                                    ELSE get_json_raises(t1, e)]
                    /\ UNCHANGED <<token, lock>>
    /\ UNCHANGED <<issued, started>>

\* The page stream yields the records of the response _get_json returned
stream_yields(c, r) == task[c].op = "stream" /\ r.kind = "http" /\ r.status < 400

\* The response arrives, and the batch it carries is added to what the
\* stream has yielded
Response(c, r) ==
    /\ ResponseTask(c, r)
    /\ yielded' = IF stream_yields(c, r) THEN Append(yielded, r.records) ELSE yielded

\* The retry sleep of _get_json is over: the same call again
GetJsonWake(c) ==
    /\ task[c].pc = "gj_sleep"
    /\ task' = [task EXCEPT ![c] = get([task[c] EXCEPT !.retry = @ + 1], token)]
    /\ UNCHANGED <<token, lock, issued, started, yielded>>

\* Mutant: the fetch of the next page goes on with the attempts of the last
NextPage_keeps_attempts(c) ==
    /\ task[c].pc = "yielded"
    /\ LET r == task[c].page
       IN  task' = [task EXCEPT ![c] =
                       IF done_is_true(r.done)
                       THEN [@ EXCEPT !.pc = "done"]
                       ELSE get([@ EXCEPT !.url = next_records_url(r), !.params = NoParams,
                                          !.page = NoResp], token)]
    /\ UNCHANGED <<token, lock, issued, started, yielded>>

\* Mutant: the next page is fetched with the parameters of the first
NextPage_keeps_params(c) ==
    /\ task[c].pc = "yielded"
    /\ LET r == task[c].page
       IN  task' = [task EXCEPT ![c] =
                       IF done_is_true(r.done)
                       THEN [@ EXCEPT !.pc = "done"]
                       ELSE get([@ EXCEPT !.url = next_records_url(r),
                                          !.retry = 1, !.reqs = 0, !.page = NoResp], token)]
    /\ UNCHANGED <<token, lock, issued, started, yielded>>

\* The consumer asks the stream for its next batch: the stream ends, or
\* fetches the page after the one it yielded
NextPage(c) ==
    /\ task[c].pc = "yielded"
    /\ LET r == task[c].page
       IN  task' = [task EXCEPT ![c] =
                       IF done_is_true(r.done)
                       THEN [@ EXCEPT !.pc = "done"]
                       ELSE get([@ EXCEPT !.url = next_records_url(r), !.params = NoParams,
                                          !.retry = 1, !.reqs = 0, !.page = NoResp], token)]
    /\ UNCHANGED <<token, lock, issued, started, yielded>>

\* The call has returned or raised: the task is free for its next call
Finish(c) ==
    /\ task[c].pc = "done"
    /\ started' = (started \/ (task[c].op = "get_token" /\ task[c].exc = NoExc))
    /\ task' = [task EXCEPT ![c] = IdleTask]
    /\ yielded' = IF task[c].op = "stream" THEN <<>> ELSE yielded
    /\ UNCHANGED <<token, lock, issued>>

\* ------------------------------------------- SalesforceClient.get_docs: data
\* Python's None, and a value that is not None
None == <<>>
Some(v) == <<v>>
ValueOf(o) == o[1]

RELEVANT_SOBJECTS == <<"Account", "Contact", "Lead", "Opportunity", "User">>
RELEVANT_SOBJECT_FIELDS ==
    {"AccountId", "BillingAddress", "Company", "ConvertedAccountId", "ConvertedContactId",
     "ConvertedDate", "ConvertedOpportunityId", "Department", "Description", "Email",
     "LeadSource", "Name", "OwnerId", "Phone", "PhotoUrl", "Rating", "StageName",
     "Status", "Title", "Type", "Website"}
\* get_docs runs get_accounts, get_opportunities, get_contacts, get_leads
EntityTypesContactsFirst == <<"Account", "Contact", "Opportunity", "Lead">>
EntityTypes == <<"Account", "Opportunity", "Contact", "Lead">>
\* sobjects_cache_by_type builds its tables in this order
CacheTypes == <<"Account", "Contact", "Opportunity", "User">>
\* get_contacts and get_leads enrich each record from the cache
EnrichedTypes == {"Contact", "Lead"}

\* The objects a global describe response lists: the relevant ones and one
\* that is not relevant
DescribedNames == Range(RELEVANT_SOBJECTS) \cup {"Case"}
\* str.lower() of the name of an object or of a field
lower(n) ==
    CASE n = "Account" -> "account"
      [] n = "Contact" -> "contact"
      [] n = "Lead" -> "lead"
      [] n = "Opportunity" -> "opportunity"
      [] n = "User" -> "user"
      [] n = "Case" -> "case"
      [] n = "Name" -> "name"
      [] n = "Email" -> "email"
      [] n = "AccountId" -> "accountid"
      [] n = "BillingAddress" -> "billingaddress"
      [] n = "Company" -> "company"
      [] n = "ConvertedAccountId" -> "convertedaccountid"
      [] n = "ConvertedContactId" -> "convertedcontactid"
      [] n = "ConvertedDate" -> "converteddate"
      [] n = "ConvertedOpportunityId" -> "convertedopportunityid"
      [] n = "Department" -> "department"
      [] n = "Description" -> "description"
      [] n = "LeadSource" -> "leadsource"
      [] n = "OwnerId" -> "ownerid"
      [] n = "Phone" -> "phone"
      [] n = "PhotoUrl" -> "photourl"
      [] n = "Rating" -> "rating"
      [] n = "StageName" -> "stagename"
      [] n = "Status" -> "status"
      [] n = "Title" -> "title"
      [] n = "Type" -> "type"
      [] n = "Website" -> "website"
      [] n = "Industry" -> "industry"
      [] n = "Id" -> "id"
      [] n = "CreatedDate" -> "createddate"
      [] n = "LastModifiedDate" -> "lastmodifieddate"
      [] n = "CONTACT" -> "contact"
      [] n = "contact" -> "contact"
      [] n = "ACCOUNT" -> "account"
      [] n = "account" -> "account"
      [] n = "email" -> "email"
      [] n = "name" -> "name"

\* A global describe response: every described object with its queryable
\* flag; q is the set of the relevant objects that are queryable
DescribeBody(q) ==
    [kind |-> "http", status |-> 200, absent |-> FALSE, errors |-> <<>>,
     records |-> <<>>, done |-> "absent", next |-> NoNext,
     sobjects |-> {[name |-> n, queryable |-> (n \in q \/ n = "Case")] : n \in DescribedNames}]
\* The answers of the server: every relevant object is queryable, or all but
\* one, or none
QueryableChoices ==
    {Range(RELEVANT_SOBJECTS), {}} \cup {Range(RELEVANT_SOBJECTS) \ {n} : n \in Range(RELEVANT_SOBJECTS)}
DescribeBodies == {DescribeBody(q) : q \in QueryableChoices}
\* queryable_sobjects: the lower-cased names of the described objects that
\* are queryable and relevant
queryable_sobjects_of(response) ==
    {lower(x.name) : x \in {y \in response.sobjects :
                                 y.queryable /\ y.name \in Range(RELEVANT_SOBJECTS)}}

\* The describe endpoint of one object
DescribeSobjectUrl(n) ==
    CASE n = "Account" -> "describe/Account"
      [] n = "Contact" -> "describe/Contact"
      [] n = "Lead" -> "describe/Lead"
      [] n = "Opportunity" -> "describe/Opportunity"
      [] n = "User" -> "describe/User"
\* The describe response of one object: the fields the user may read
DescribeSobjectBody ==
    [kind |-> "http", status |-> 200, absent |-> FALSE, errors |-> <<>>,
     records |-> <<>>, done |-> "absent", next |-> NoNext,
     fields |-> {"Name", "Email", "Secret__c"}]
\* queryable_sobject_fields: the described fields that are relevant, in
\* lower case
queryable_fields_of(response) ==
    {lower(f) : f \in response.fields \cap RELEVANT_SOBJECT_FIELDS}

\* The query text of get_accounts, ..., get_leads for an object, and of
\* _prepare_sobject_cache
EntityQuery(n) ==
    CASE n = "Account" -> "q=Account"
      [] n = "Opportunity" -> "q=Opportunity"
      [] n = "Contact" -> "q=Contact"
      [] n = "Lead" -> "q=Lead"
CacheQuery(n) ==
    CASE n = "Account" -> "q=Id,Name:Account"
      [] n = "Contact" -> "q=Id,Name,Email:Contact"
      [] n = "Opportunity" -> "q=Id,Name:Opportunity"
      [] n = "User" -> "q=Id,Name,Email:User"
CacheQueries == {CacheQuery(CacheTypes[k]) : k \in DOMAIN CacheTypes}
\* The object a query selects from
QueriedSobject(q) ==
    CASE q \in {"q=Account", "q=Id,Name:Account"} -> "Account"
      [] q \in {"q=Contact", "q=Id,Name,Email:Contact"} -> "Contact"
      [] q \in {"q=Opportunity", "q=Id,Name:Opportunity"} -> "Opportunity"
      [] q \in {"q=Lead"} -> "Lead"
      [] q \in {"q=Id,Name,Email:User"} -> "User"

\* The records of the server: record j of page i of object n.  The second
\* record of a page refers to records of the second page of the other objects
RecordId(n, i, j) == <<n, i, j>>
SobjectRecord(n, i, j) ==
    CASE n = "Contact" ->
            [Id |-> RecordId(n, i, j), AccountId |-> RecordId("Account", j, 1),
             OwnerId |-> RecordId("User", j, 1)]
      [] n = "Lead" ->
            [Id |-> RecordId(n, i, j), OwnerId |-> RecordId("User", j, 1),
             ConvertedAccountId |-> RecordId("Account", j, 1),
             ConvertedContactId |-> RecordId("Contact", j, 1),
             ConvertedOpportunityId |-> RecordId("Opportunity", j, 1)]
      [] OTHER -> [Id |-> RecordId(n, i, j)]
\* A record as a cache query returns it
CacheRecord(n, i, j) == [Id |-> RecordId(n, i, j)]
NextUrlOf(i) == IF i = 1 THEN "U2" ELSE "U3"
\* Page i of the results of query q, the last one or not
QueryPage(q, i, last) ==
    LET n == QueriedSobject(q)
        recs == IF q \in CacheQueries
                THEN <<CacheRecord(n, i, 1), CacheRecord(n, i, 2)>>
                ELSE <<SobjectRecord(n, i, 1), SobjectRecord(n, i, 2)>>
    IN  HttpResp(200, FALSE, <<>>, recs,
                 IF last THEN "True" ELSE "False", IF last THEN NoNext ELSE NextUrlOf(i))
\* Every url and every query get_docs can ask for
CallKeys ==
    {DescribeUrl} \cup {DescribeSobjectUrl(RELEVANT_SOBJECTS[k]) : k \in DOMAIN RELEVANT_SOBJECTS}
      \cup {EntityQuery(EntityTypes[k]) : k \in DOMAIN EntityTypes} \cup CacheQueries
NoCalls == [k \in CallKeys |-> 0]
\* A 4xx that is not retried
RateLimited ==
    HttpResp(400, FALSE, <<[errorCode |-> "REQUEST_LIMIT_EXCEEDED"]>>, <<>>, "absent", NoNext)

\* dict.get(id, {}): the entry, or an empty record
EmptyRecord == [Id |-> None]
dict_get(table, id) == IF id \in DOMAIN table THEN table[id] ELSE EmptyRecord
\* The table _prepare_sobject_cache fills from a batch of records
cache_records(table, records) ==
    [id \in DOMAIN table \cup {records[k].Id : k \in DOMAIN records} |->
        IF \E k \in DOMAIN records : records[k].Id = id
        THEN LET k == CHOOSE k \in DOMAIN records :
                          records[k].Id = id /\ \A m \in DOMAIN records : records[m].Id = id => m <= k
             IN  records[k]
        ELSE table[id]]
EmptyTable == [id \in {} |-> EmptyRecord]
\* A dict, and d[k] = v
EmptyDict == [k \in {} |-> EmptyTable]
dict_put(d, k, v) == [x \in DOMAIN d \cup {k} |-> IF x = k THEN v ELSE d[x]]

\* The client before its first lookup: nothing is memoised
NoClient ==
    [queryable_sobjects |-> None, queryable_sobject_fields |-> None,
     sobjects_cache_by_type |-> None]
\* type: the index in EntityTypes of the get_* that runs; ret: where
\* _is_queryable returns to; field: the index in RELEVANT_SOBJECTS of the
\* describe in flight; pageNo, refPage: the pages the entity stream and the
\* cache stream have received; batch, rec: the records of the page at hand and
\* the index of the record being mapped; ref: the index in CacheTypes of the
\* table being built; table: the local dict of _prepare_sobject_cache;
\* outer: the suspended entity stream while the cache is built; run: history,
\* the number of the get_docs iteration on this client; at: history, where an
\* exception left get_docs
IdleSync ==
    [pc |-> "idle", type |-> 0, ret |-> "idle", field |-> 0, pageNo |-> 0,
     batch |-> <<>>, rec |-> 0, ref |-> 0, refPage |-> 0, table |-> EmptyTable,
     outer |-> [task |-> IdleTask, yielded |-> <<>>], exc |-> NoExc, at |-> "idle",
     run |-> 0]

\* ---------------------------------------------- SalesforceClient.session
\* created: the aiohttp sessions the cached property has made, the first one
\* in __init__; cached: the instance holds one; closed: the sessions closed;
\* closing: close() is at "await self.session.close()"; returned: close() has
\* returned; stale: the token exchange in flight was posted on a session
\* that was closed already
NewSession ==
    [created |-> 1, cached |-> TRUE, closed |-> 0, closing |-> FALSE,
     returned |-> FALSE, stale |-> FALSE]
\* self.session, a cached_property: a ClientSession is made when the
\* instance holds none
session(h) == IF h.cached THEN h ELSE [h EXCEPT !.created = @ + 1, !.cached = TRUE]
\* SalesforceAPIToken.session is the session of __init__, which the first
\* close() closes
token_session_closed(h) == h.closed >= 1

\* ------------------------------------------------- the schema lookups
\* _is_queryable(sobject), once queryable_sobjects() has its list
is_queryable_always(c, sobject) == TRUE
is_queryable(c, sobject) == lower(sobject) \in ValueOf(c.queryable_sobjects)
\* What the describe endpoints answer: the objects of the global describe
\* with their queryable flag, and the fields of each relevant object
NoDescribe == [sobjects |-> {}, fields |-> [n \in Range(RELEVANT_SOBJECTS) |-> {}]]
SchemaNames == {"Contact", "contact"}
\* The other relevant objects are listed as queryable, and so is one that
\* is not relevant
ListedQueryable ==
    {[name |-> n, queryable |-> TRUE] : n \in DescribedNames \ {"Contact"}}
SobjectLists ==
    UNION {{ListedQueryable \cup {[name |-> n, queryable |-> q[n]] : n \in names} :
                q \in [names -> BOOLEAN]} :
               names \in SUBSET SchemaNames}
AllFields == RELEVANT_SOBJECT_FIELDS \cup {"Id", "CreatedDate", "LastModifiedDate"}
\* The fields a described object lists: all of them, all but Email, or few
\* and one that is not relevant
FieldLists ==
    {AllFields, AllFields \ {"Email"},
     {"Id", "CreatedDate", "LastModifiedDate", "Name", "Industry"}}
VariedSobjects == {"Contact"}
\* The arguments of the lookups
SobjectArgs == {"Contact", "CONTACT", "contact", "Account", "Case"}
SelectArgs == {"Contact", "contact"}
CandidateNames == {"Email", "Industry", "name"}
CandidateLists == UNION {[1..k -> CandidateNames] : k \in 0..MaxCandidates}
DescribeInputs ==
    {[sobjects |-> s,
      fields |-> [n \in Range(RELEVANT_SOBJECTS) |->
                     IF n \in VariedSobjects THEN f[n] ELSE AllFields]] :
        s \in SobjectLists, f \in [VariedSobjects -> FieldLists]}

\* queryable_sobjects(): the memoised list, computed from the global
\* describe response at the first call
queryable_sobjects(c, d) ==
    IF c.queryable_sobjects # None
    THEN c
    ELSE [c EXCEPT !.queryable_sobjects = Some(queryable_sobjects_of(d))]
\* queryable_sobject_fields(): the memoised dict, computed from the
\* describe response of every relevant object at the first call
queryable_sobject_fields(c, d) ==
    IF c.queryable_sobject_fields # None
    THEN c
    ELSE [c EXCEPT !.queryable_sobject_fields =
              Some([n \in Range(RELEVANT_SOBJECTS) |->
                       queryable_fields_of([fields |-> d.fields[n]])])]
\* Mutant: the candidates are returned as they came
select_queryable_fields_all(c, sobject, fields) == fields
\* _select_queryable_fields(sobject, fields) with the memoised dict:
\* sobject_fields.get(sobject, []), then the candidates whose lower-cased
\* name is in it
select_queryable_fields(c, sobject, fields) ==
    LET sobject_fields == ValueOf(c.queryable_sobject_fields)
        queryable_fields == IF sobject \in DOMAIN sobject_fields
                            THEN sobject_fields[sobject]
                            ELSE {}
    IN  SelectSeq(fields, LAMBDA f : lower(f) \in queryable_fields)

\* ------------------------------------------------ SalesforceSoqlBuilder
\* A clause that was not set is the empty line
NoLine == <<>>
SalesforceSoqlBuilder(table) ==
    [table_name |-> table, fields |-> <<>>, where |-> NoLine, order_by |-> NoLine,
     limit |-> NoLine]
with_id(b) == [b EXCEPT !.fields = Append(@, "Id")]
with_default_metafields(b) == [b EXCEPT !.fields = @ \o <<"CreatedDate", "LastModifiedDate">>]
with_fields(b, fields) == [b EXCEPT !.fields = @ \o fields]
with_where(b, where_string) == [b EXCEPT !.where = <<"WHERE", where_string>>]
with_order_by(b, order_by_string) == [b EXCEPT !.order_by = <<"ORDER BY", order_by_string>>]
with_limit(b, limit) == [b EXCEPT !.limit = <<"LIMIT", limit>>]
\* set(self.fields) is iterated in an order Python does not specify: the
\* orders it can come in, and the one of first occurrence
set_orders(fields) ==
    {o \in [1..Cardinality(Range(fields)) -> Range(fields)] : Range(o) = Range(fields)}
RECURSIVE first_seen(_)
first_seen(fields) ==
    IF fields = <<>> THEN <<>>
    ELSE LET front == first_seen(SubSeq(fields, 1, Len(fields) - 1))
             last == fields[Len(fields)]
         IN  IF last \in Range(front) THEN front ELSE Append(front, last)
\* Mutant: the fields are put out as they were added
build_without_set(b, order) ==
    SelectSeq(<<<<"SELECT">> \o b.fields, <<"FROM", b.table_name>>, b.where, b.order_by,
                b.limit>>,
              LAMBDA line : line # NoLine)
\* build(): the SELECT line with the columns of set(self.fields) in the
\* order the set is iterated in, the FROM line and the three clauses, the
\* empty lines left out
build(b, order) ==
    SelectSeq(<<<<"SELECT">> \o order, <<"FROM", b.table_name>>, b.where, b.order_by,
                b.limit>>,
              LAMBDA line : line # NoLine)
\* Mutant: build() empties the list of fields
build_clears_fields(b) == [b EXCEPT !.fields = <<>>]
\* The builder after build(), which assigns to nothing of self
build_leaves(b) == b
\* with_join(join): the text of the sub-query as one more column
join_column(join) ==
    CASE join[1] = <<"SELECT", "Id">> -> "(SELECT Id FROM Opportunities)"
      [] join[1] = <<"SELECT", "Id", "Name">> -> "(SELECT Id,Name FROM Opportunities)"
      [] join[1] = <<"SELECT", "Id", "StageName">> -> "(SELECT Id,StageName FROM Opportunities)"
      [] join[1] = <<"SELECT", "Id", "Name", "StageName">> ->
             "(SELECT Id,Name,StageName FROM Opportunities)"
with_join(b, join) == [b EXCEPT !.fields = Append(@, join_column(join))]

\* The builders of the queries, as they are when build() is called on them
opportunities_join_builder(c) ==
    with_limit(
        with_order_by(
            with_fields(with_id(SalesforceSoqlBuilder("Opportunities")),
                        select_queryable_fields(c, "Opportunity", <<"Name", "StageName">>)),
            "CreatedDate DESC"),
        "1")
accounts_query_builder(c) ==
    LET b == with_fields(
                 with_fields(
                     with_fields(
                         with_default_metafields(with_id(SalesforceSoqlBuilder("Account"))),
                         select_queryable_fields(c, "Account",
                             <<"Name", "Description", "BillingAddress", "Type", "Website",
                               "Rating", "Department">>)),
                     <<"Owner.Id", "Owner.Name", "Owner.Email">>),
                 <<"Parent.Id", "Parent.Name">>)
    IN  IF is_queryable(c, "Opportunity")
        THEN with_join(b, build(opportunities_join_builder(c),
                                first_seen(opportunities_join_builder(c).fields)))
        ELSE b
opportunities_query_builder(c) ==
    with_fields(
        with_fields(
            with_default_metafields(with_id(SalesforceSoqlBuilder("Opportunity"))),
            select_queryable_fields(c, "Opportunity", <<"Name", "Description", "StageName">>)),
        <<"Owner.Id", "Owner.Name", "Owner.Email">>)
contacts_query_builder(c) ==
    with_fields(
        with_default_metafields(with_id(SalesforceSoqlBuilder("Contact"))),
        select_queryable_fields(c, "Contact",
            <<"Name", "Description", "Email", "Phone", "Title", "PhotoUrl", "LeadSource",
              "AccountId", "OwnerId">>))
leads_query_builder(c) ==
    with_fields(
        with_default_metafields(with_id(SalesforceSoqlBuilder("Lead"))),
        select_queryable_fields(c, "Lead",
            <<"Company", "ConvertedAccountId", "ConvertedContactId", "ConvertedDate",
              "ConvertedOpportunityId", "Description", "Email", "LeadSource", "Name",
              "OwnerId", "Phone", "PhotoUrl", "Rating", "Status", "Title">>))
entity_query_builder(c, n) ==
    CASE n = "Account" -> accounts_query_builder(c)
      [] n = "Opportunity" -> opportunities_query_builder(c)
      [] n = "Contact" -> contacts_query_builder(c)
      [] n = "Lead" -> leads_query_builder(c)
\* _prepare_sobject_cache: Id, Name, and Email for the types that have one
prepare_sobject_cache_builder(sobject) ==
    with_fields(with_id(SalesforceSoqlBuilder(sobject)),
                IF sobject \in {"User", "Contact", "Lead"}
                THEN <<"Name", "Email">>
                ELSE <<"Name">>)

\* --------------------------------------------------- SalesforceDocMapper
\* A value of a record or of a document is None or a text, and a text is
\* the sequence of the pieces it was put together from; a dict is a function
\* of its keys
Empty == <<<<>>>>
Str(s) == <<<<s>>>>
Text(pieces) == <<pieces>>
\* bool(value) of Python for None and for a text
truthy(v) == v # None /\ v # Empty
\* f"{value}"
fmt(v) == IF v = None THEN <<"None">> ELSE v[1]
\* dict.item(key, default) and dict.item(key)
get_or(d, key, default) == IF key \in DOMAIN d THEN d[key] ELSE default
item(d, key) == get_or(d, key, None)
NoDict == [k \in {} |-> None]
\* record[key] = value
dict_set(d, key, value) == [k \in DOMAIN d \cup {key} |-> IF k = key THEN value ELSE d[k]]
base_url == "base_url"
\* f"{self.base_url}/{id}"
url_of(id) == Text(<<base_url, "/">> \o fmt(id))

\* ", ".join(list)
RECURSIVE join(_)
join(list) ==
    IF list = <<>> THEN <<>>
    ELSE IF Len(list) = 1 THEN list[1][1]
    ELSE list[1][1] \o <<", ">> \o join(Tail(list))
\* _format_address(address)
format_address(address) ==
    IF address = None \/ address = NoDict
    THEN Empty
    ELSE LET address_fields ==
                 <<item(address, "street"), item(address, "city"), item(address, "state"),
                   Text(fmt(get_or(address, "postalCode", Empty))), item(address, "country")>>
         IN  Text(join(SelectSeq(address_fields, truthy)))

map_account(account) ==
    LET owner == get_or(account, "Owner", NoDict)
        opportunities == item(account, "Opportunities")
        opportunity_records ==
            IF opportunities # None THEN get_or(opportunities, "records", <<>>) ELSE <<>>
        opportunity == IF Len(opportunity_records) > 0 THEN opportunity_records[1] ELSE NoDict
        opportunity_url == IF opportunity # NoDict THEN url_of(item(opportunity, "Id")) ELSE Empty
        opportunity_status == get_or(opportunity, "StageName", Empty)
    IN  [_id |-> item(account, "Id"),
         account_type |-> item(account, "Type"),
         address |-> format_address(item(account, "BillingAddress")),
         body |-> item(account, "Description"),
         content_source_id |-> item(account, "Id"),
         created_at |-> item(account, "CreatedDate"),
         last_updated |-> item(account, "LastModifiedDate"),
         open_activities |-> Empty,
         open_activities_urls |-> Empty,
         opportunity_name |-> item(opportunity, "Name"),
         opportunity_status |-> opportunity_status,
         opportunity_url |-> opportunity_url,
         owner |-> item(owner, "Name"),
         owner_email |-> item(owner, "Email"),
         rating |-> item(account, "Rating"),
         source |-> Str("salesforce"),
         tags |-> <<item(account, "Type")>>,
         title |-> item(account, "Name"),
         type |-> Str("account"),
         url |-> url_of(item(account, "Id")),
         website_url |-> item(account, "Website")]

map_opportunity(opportunity) ==
    LET owner == get_or(opportunity, "Owner", NoDict)
    IN  [_id |-> item(opportunity, "Id"),
         body |-> item(opportunity, "Description"),
         content_source_id |-> item(opportunity, "Id"),
         created_at |-> item(opportunity, "CreatedDate"),
         last_updated |-> item(opportunity, "LastModifiedDate"),
         next_step |-> item(opportunity, "NextStep"),
         owner |-> item(owner, "Name"),
         owner_email |-> item(owner, "Email"),
         source |-> Str("salesforce"),
         status |-> get_or(opportunity, "StageName", Empty),
         title |-> item(opportunity, "Name"),
         type |-> Str("opportunity"),
         url |-> url_of(item(opportunity, "Id"))]

map_contact(contact) ==
    LET account == get_or(contact, "Account", NoDict)
        account_id == get_or(contact, "AccountId", Empty)
        account_url == IF truthy(account_id) THEN url_of(account_id) ELSE Empty
        owner == get_or(contact, "Owner", NoDict)
        owner_id == get_or(contact, "OwnerId", Empty)
        owner_url == IF truthy(owner_id) THEN url_of(owner_id) ELSE Empty
        photo_url == item(contact, "PhotoUrl")
        thumbnail == IF truthy(photo_url) THEN Text(<<base_url>> \o fmt(photo_url)) ELSE Empty
    IN  [_id |-> item(contact, "Id"),
         account |-> item(account, "Name"),
         account_url |-> account_url,
         body |-> item(contact, "Description"),
         email |-> item(contact, "Email"),
         job_title |-> item(contact, "Title"),
         last_updated |-> item(contact, "LastModifiedDate"),
         lead_source |-> item(contact, "LeadSource"),
         owner |-> item(owner, "Name"),
         owner_url |-> owner_url,
         phone |-> item(contact, "Phone"),
         source |-> Str("salesforce"),
         thumbnail |-> thumbnail,
         title |-> item(contact, "Name"),
         type |-> Str("contact"),
         url |-> url_of(item(contact, "Id"))]

map_lead(lead) ==
    LET owner == get_or(lead, "Owner", NoDict)
        owner_id == get_or(lead, "OwnerId", Empty)
        owner_url == IF truthy(owner_id) THEN url_of(owner_id) ELSE Empty
        converted_account == get_or(lead, "ConvertedAccount", NoDict)
        converted_account_id == item(converted_account, "Id")
        converted_account_url ==
            IF truthy(converted_account_id) THEN url_of(converted_account_id) ELSE None
        converted_contact == get_or(lead, "ConvertedContact", NoDict)
        converted_contact_id == item(converted_account, "Id")
        converted_contact_url ==
            IF truthy(converted_contact_id) THEN url_of(converted_contact_id) ELSE None
        converted_opportunity == get_or(lead, "ConvertedOpportunity", NoDict)
        converted_opportunity_id == item(converted_opportunity, "Id")
        converted_opportunity_url ==
            IF truthy(converted_opportunity_id) THEN url_of(converted_opportunity_id) ELSE None
        photo_url == item(lead, "PhotoUrl")
        thumbnail == IF truthy(photo_url) THEN Text(<<base_url>> \o fmt(photo_url)) ELSE None
    IN  [_id |-> item(lead, "Id"),
         body |-> item(lead, "Description"),
         company |-> item(lead, "Company"),
         converted_account |-> item(converted_account, "Name"),
         converted_account_url |-> converted_account_url,
         converted_at |-> item(lead, "ConvertedDate"),
         converted_contact |-> item(converted_contact, "Name"),
         converted_contact_url |-> converted_contact_url,
         converted_opportunity |-> item(converted_opportunity, "Name"),
         converted_opportunity_url |-> converted_opportunity_url,
         email |-> item(lead, "Email"),
         job_title |-> item(lead, "Title"),
         last_updated |-> item(lead, "LastModifiedDate"),
         lead_source |-> item(lead, "LeadSource"),
         owner |-> item(owner, "Name"),
         owner_url |-> owner_url,
         phone |-> item(lead, "Phone"),
         rating |-> item(lead, "Rating"),
         source |-> Str("salesforce"),
         status |-> item(lead, "Status"),
         title |-> item(lead, "Name"),
         thumbnail |-> thumbnail,
         type |-> Str("lead"),
         url |-> url_of(item(lead, "Id"))]

\* The record after a map_* call, which assigns to nothing of it
record_after_map(record) == record

\* The last call: what was called with what, and the value it returned (a
\* boolean, a list of fields or the lines of a query); before: what build()
\* returned the time before, if the builder was not touched since; record,
\* doc, after: the record a map_* was called with, the document it returned
\* and the record afterwards; again: the document of a second call
NoResult ==
    [op |-> "none", sobject |-> "none", fields |-> <<>>, bool |-> FALSE, list |-> <<>>,
     text |-> <<>>, before |-> <<>>, record |-> NoDict, doc |-> NoDict, after |-> NoDict,
     again |-> NoDict]
InitAux ==
    /\ http = NewSession
    /\ describe = NoDescribe
    /\ builder = SalesforceSoqlBuilder("none")
    /\ result = NoResult

\* ------------------------------------------------------------- histories
\* generate() has sent its POST to the token endpoint in this step
Posted(c) == task[c].pc # "gen_wait" /\ task'[c].pc = "gen_wait"
PostCount(c) == IF Posted(c) THEN 1 ELSE 0

\* A 4xx other than 401
ClientError(r) == r.kind = "http" /\ 400 <= r.status /\ r.status < 500 /\ r.status # 401
\* The error codes of the body as the server sent it
SentCodes(r) == {r.errors[i].errorCode : i \in DOMAIN r.errors}
\* A transient failure: a 5xx, a transport error or an uncategorised 4xx
Transient(r) ==
    \/ r.kind = "transport"
    \/ r.kind = "http" /\ r.status >= 500
    \/ ClientError(r) /\ SentCodes(r) \cap ({"REQUEST_LIMIT_EXCEEDED"} \cup InvalidQueryCodes) = {}
Failure(r) == r.kind = "transport" \/ r.status >= 400

ObserveResponse(c, r) ==
    [obs EXCEPT !.resp = r,
                !.transient = IF Transient(r) THEN @ + 1 ELSE @,
                !.after401 = (r.kind = "http" /\ r.status = 401),
                !.rejTok = IF r.kind = "http" /\ r.status = 401 THEN task[c].sentTok ELSE NoToken,
                !.rejUrl = IF r.kind = "http" /\ r.status = 401 THEN task[c].sentUrl ELSE NoUrl,
                !.rejParams = IF r.kind = "http" /\ r.status = 401 THEN task[c].sentParams ELSE NoParams,
                !.posts = @ + PostCount(c),
                !.failed = IF Failure(r) THEN @ + 1 ELSE @]

\* ---------------------------------------------------------- specifications
Init ==
    /\ task = [c \in Callers |-> IdleTask]
    /\ token = NoToken
    /\ lock = Free
    /\ issued = 0
    /\ started = FALSE
    /\ yielded = <<>>
    /\ served = <<>>
    /\ obs = NoObs
    /\ client = NoClient
    /\ sync = IdleSync
    /\ docs = <<>>
    /\ calls = NoCalls
    /\ InitAux

\* One sync run of a single task: the first token, then _get_json calls,
\* answered in every way the endpoints can answer
SessionGetToken ==
    /\ GetToken(Session)
    /\ obs' = [NoObs EXCEPT !.posts = PostCount(Session)]
    /\ UNCHANGED served
    /\ UNCHANGED <<syncVars, auxVars>>
SessionTokenResponse ==
    \E r \in TokenResponses :
        /\ TokenResponse(Session, r)
        /\ obs' = [obs EXCEPT !.invalid = @ \/ generate_exception(r) = "InvalidCredentialsException",
                               !.tokResp = r]
        /\ UNCHANGED served
        /\ UNCHANGED <<syncVars, auxVars>>
SessionGetTokenWake ==
    /\ GetTokenWake(Session)
    /\ obs' = [obs EXCEPT !.posts = @ + PostCount(Session)]
    /\ UNCHANGED served
    /\ UNCHANGED <<syncVars, auxVars>>
SessionGetJson ==
    /\ GetJson(Session, DescribeUrl, NoParams)
    /\ obs' = NoObs
    /\ UNCHANGED served
    /\ UNCHANGED <<syncVars, auxVars>>
SessionResponse ==
    \E r \in Responses :
        /\ Response(Session, r)
        /\ obs' = ObserveResponse(Session, r)
        /\ UNCHANGED served
        /\ UNCHANGED <<syncVars, auxVars>>
SessionGetJsonWake ==
    /\ GetJsonWake(Session)
    /\ obs' = [obs EXCEPT !.resp = NoResp]
    /\ UNCHANGED served
    /\ UNCHANGED <<syncVars, auxVars>>
SessionFinish ==
    /\ Finish(Session)
    /\ obs' = NoObs
    /\ UNCHANGED served
    /\ UNCHANGED <<syncVars, auxVars>>

Next ==
    \/ SessionGetToken
    \/ SessionTokenResponse
    \/ SessionGetTokenWake
    \/ SessionGetJson
    \/ SessionResponse
    \/ SessionGetJsonWake
    \/ SessionFinish

Spec == Init /\ [][Next]_vars

\* The state after the first token has been acquired
InitStarted ==
    /\ task = [c \in Callers |-> IdleTask]
    /\ token = 1
    /\ lock = Free
    /\ issued = 1
    /\ started = TRUE
    /\ yielded = <<>>
    /\ served = <<>>
    /\ obs = NoObs
    /\ client = NoClient
    /\ sync = IdleSync
    /\ docs = <<>>
    /\ calls = NoCalls
    /\ InitAux

\* The page stream of one query, consumed by the session task
PagesStream ==
    \E q \in Queries :
        /\ StreamPages(Session, q)
        /\ served' = <<>>
        /\ obs' = [NoObs EXCEPT !.sent = 1]
        /\ UNCHANGED <<syncVars, auxVars>>
PagesResponse ==
    \E r \in PageResponses :
        \* the query endpoint serves at most MaxPages pages to a stream
        /\ (r.status = 200 /\ ~done_is_true(r.done)) => Len(served) + 1 < MaxPages
        /\ Response(Session, r)
        /\ served' = IF Failure(r) THEN served ELSE Append(served, r)
        /\ obs' = [obs EXCEPT !.resp = r, !.failed = IF Failure(r) THEN @ + 1 ELSE @]
        /\ UNCHANGED <<syncVars, auxVars>>
PagesGetJsonWake ==
    /\ GetJsonWake(Session)
    /\ obs' = [obs EXCEPT !.resp = NoResp, !.sent = @ + 1]
    /\ UNCHANGED served
    /\ UNCHANGED <<syncVars, auxVars>>
PagesNextPage ==
    /\ NextPage(Session)
    /\ obs' = [obs EXCEPT !.resp = NoResp,
                          !.sent = IF task'[Session].pc = "await" THEN @ + 1 ELSE @]
    /\ UNCHANGED served
    /\ UNCHANGED <<syncVars, auxVars>>
PagesFinish ==
    /\ Finish(Session)
    /\ served' = <<>>
    /\ obs' = NoObs
    /\ UNCHANGED <<syncVars, auxVars>>

NextPages ==
    \/ PagesStream
    \/ PagesResponse
    \/ PagesGetJsonWake
    \/ PagesNextPage
    \/ PagesFinish

SpecPages == InitStarted /\ [][NextPages]_vars

\* Several tasks call _get_json at once and refresh the token on a 401
ConcTokenResponse ==
    \E c \in Callers : \E r \in TokenResponses :
        TokenResponse(c, r) /\ UNCHANGED <<served, obs, auxVars, client, sync, docs, calls>>
ConcGetTokenWake ==
    \E c \in Callers : GetTokenWake(c) /\ UNCHANGED <<served, obs, auxVars, client, sync, docs, calls>>
ConcGetJson ==
    \E c \in Callers : GetJson(c, DescribeUrl, NoParams) /\ UNCHANGED <<served, obs, auxVars, client, sync, docs, calls>>
ConcResponse ==
    \E c \in Callers : \E r \in CoarseResponses :
        Response(c, r) /\ UNCHANGED <<served, obs, auxVars, client, sync, docs, calls>>
ConcGetJsonWake ==
    \E c \in Callers : GetJsonWake(c) /\ UNCHANGED <<served, obs, auxVars, client, sync, docs, calls>>
ConcFinish ==
    \E c \in Callers : Finish(c) /\ UNCHANGED <<served, obs, auxVars, client, sync, docs, calls>>

NextConcurrent ==
    \/ ConcTokenResponse
    \/ ConcGetTokenWake
    \/ ConcGetJson
    \/ ConcResponse
    \/ ConcGetJsonWake
    \/ ConcFinish

SpecConcurrent == InitStarted /\ [][NextConcurrent]_vars

\* The page stream of one query against a server that may serve pages without
\* end.  The consumer keeps only the batch it was handed last.
EndlessStream ==
    \E q \in Queries :
        /\ StreamPages(Session, q)
        /\ UNCHANGED <<served, obs, auxVars, client, sync, docs, calls>>
EndlessResponse ==
    \E r \in PageResponses :
        /\ ResponseTask(Session, r)
        /\ yielded' = IF stream_yields(Session, r) THEN <<r.records>> ELSE yielded
        /\ UNCHANGED <<served, obs, auxVars, client, sync, docs, calls>>
EndlessGetJsonWake ==
    /\ GetJsonWake(Session)
    /\ UNCHANGED <<served, obs, auxVars, client, sync, docs, calls>>
EndlessNextPage ==
    /\ NextPage(Session)
    /\ UNCHANGED <<served, obs, auxVars, client, sync, docs, calls>>
EndlessFinish ==
    /\ Finish(Session)
    /\ UNCHANGED <<served, obs, auxVars, client, sync, docs, calls>>

NextEndless ==
    \/ EndlessStream
    \/ EndlessResponse
    \/ EndlessGetJsonWake
    \/ EndlessNextPage
    \/ EndlessFinish

\* The event loop resumes a task that can run: every request is answered or
\* fails, every retry sleep ends, the consumer asks for the next batch
FairEndless ==
    /\ WF_vars(EndlessResponse)
    /\ WF_vars(EndlessGetJsonWake)
    /\ WF_vars(EndlessNextPage)

SpecEndless == InitStarted /\ [][NextEndless]_vars /\ FairEndless

\* ------------------------------------------- SalesforceClient.get_docs: steps
\* The entity type whose get_* runs, and the type whose cache table is built
EntityType == EntityTypes[sync.type]
CacheType == CacheTypes[sync.ref]

\* A get_* has returned: get_docs goes on with the next one, or ends
NextType(sy) ==
    IF sy.type = Len(EntityTypes)
    THEN [sy EXCEPT !.pc = "done", !.exc = NoExc]
    ELSE [sy EXCEPT !.pc = "is_queryable", !.type = @ + 1, !.pageNo = 0,
                    !.batch = <<>>, !.rec = 0]
\* An exception leaves get_docs; its generators are gone with it
SyncSuppresses(sy, e) == NextType(sy)
SyncRaises(sy, e) == [sy EXCEPT !.pc = "done", !.exc = e, !.at = sy.pc]
\* _prepare_sobject_cache has returned: the next table, or the cache is built
NextCacheType(sy) ==
    IF sy.ref = Len(CacheTypes)
    THEN [sy EXCEPT !.pc = "cache_built", !.table = EmptyTable, !.refPage = 0]
    ELSE [sy EXCEPT !.pc = "cache_is_queryable", !.ref = @ + 1,
                    !.table = EmptyTable, !.refPage = 0]
Called(k) == [calls EXCEPT ![k] = @ + 1]

\* sobjects_cache_by_type(): "if self._sobjects_cache_by_type is not None:
\* return" it
cache_never_memoised(c) == FALSE
cache_is_memoised(c) == c.sobjects_cache_by_type # None

\* queryable_sobjects(): "if self._queryable_sobjects is not None: return" it
sobjects_never_memoised(c) == FALSE
sobjects_are_memoised(c) == c.queryable_sobjects # None

\* SalesforceClient.get_docs is iterated: get_accounts starts
GetDocs ==
    /\ sync.pc = "idle"
    /\ started
    /\ task[Session].pc = "idle"
    /\ sync' = [IdleSync EXCEPT !.pc = "is_queryable", !.type = 1, !.run = 1]
    /\ docs' = <<>>
    /\ calls' = NoCalls
    /\ UNCHANGED <<coreVars, served, obs, auxVars, client>>

\* _is_queryable(sobject), called by a get_* (at "is_queryable") or by
\* _prepare_sobject_cache (at "cache_is_queryable"): queryable_sobjects()
\* sends the global describe request unless its result is memoised
QueryableSobjects ==
    /\ sync.pc \in {"is_queryable", "cache_is_queryable"}
    /\ ~sobjects_are_memoised(client)
    /\ GetJson(Session, DescribeUrl, NoParams)
    /\ sync' = [sync EXCEPT !.pc = "describe", !.ret = sync.pc]
    /\ calls' = Called(DescribeUrl)
    /\ UNCHANGED <<served, obs, auxVars, client, docs>>

\* The describe request has returned or raised
Described ==
    /\ sync.pc = "describe"
    /\ task[Session].pc = "done"
    /\ Finish(Session)
    /\ IF task[Session].exc = NoExc
       THEN /\ client' = [client EXCEPT !.queryable_sobjects =
                                            Some(queryable_sobjects_of(task[Session].page))]
            /\ sync' = [sync EXCEPT !.pc = sync.ret]
       ELSE /\ sync' = SyncRaises(sync, task[Session].exc)
            /\ UNCHANGED client
    /\ UNCHANGED <<served, obs, auxVars, docs, calls>>

\* get_accounts, ..., get_leads after _is_queryable: return if the type is
\* not queryable, else build the query
IsQueryable ==
    /\ sync.pc = "is_queryable"
    /\ sobjects_are_memoised(client)
    /\ sync' = IF is_queryable(client, EntityType)
               THEN [sync EXCEPT !.pc = "query"]
               ELSE NextType(sync)
    /\ UNCHANGED <<coreVars, served, obs, auxVars, client, docs, calls>>

\* _accounts_query, ..., _leads_query: _select_queryable_fields reads
\* queryable_sobject_fields(), which describes every relevant object unless
\* its dict is there already; with the dict, the query is built and the page
\* stream started
Query ==
    /\ sync.pc = "query"
    /\ IF client.queryable_sobject_fields = None
       THEN /\ client' = [client EXCEPT !.queryable_sobject_fields = Some(EmptyDict)]
            /\ GetJson(Session, DescribeSobjectUrl(RELEVANT_SOBJECTS[1]), NoParams)
            /\ sync' = [sync EXCEPT !.pc = "fields", !.field = 1]
            /\ calls' = Called(DescribeSobjectUrl(RELEVANT_SOBJECTS[1]))
       ELSE /\ StreamPages(Session, EntityQuery(EntityType))
            /\ sync' = [sync EXCEPT !.pc = "stream", !.pageNo = 0]
            /\ calls' = Called(EntityQuery(EntityType))
            /\ UNCHANGED client
    /\ UNCHANGED <<served, obs, auxVars, docs>>

\* A describe request of queryable_sobject_fields has returned or raised
FieldsDescribed ==
    /\ sync.pc = "fields"
    /\ task[Session].pc = "done"
    /\ Finish(Session)
    /\ IF task[Session].exc = NoExc
       THEN /\ client' = [client EXCEPT !.queryable_sobject_fields =
                              Some(dict_put(ValueOf(@), RELEVANT_SOBJECTS[sync.field],
                                            queryable_fields_of(task[Session].page)))]
            /\ sync' = IF sync.field < Len(RELEVANT_SOBJECTS)
                       THEN [sync EXCEPT !.pc = "fields_next", !.field = @ + 1]
                       ELSE [sync EXCEPT !.pc = "query", !.field = 0]
       ELSE /\ sync' = SyncRaises(sync, task[Session].exc)
            /\ UNCHANGED client
    /\ UNCHANGED <<served, obs, auxVars, docs, calls>>

\* queryable_sobject_fields describes the next relevant object
FieldsNext ==
    /\ sync.pc = "fields_next"
    /\ GetJson(Session, DescribeSobjectUrl(RELEVANT_SOBJECTS[sync.field]), NoParams)
    /\ sync' = [sync EXCEPT !.pc = "fields"]
    /\ calls' = Called(DescribeSobjectUrl(RELEVANT_SOBJECTS[sync.field]))
    /\ UNCHANGED <<served, obs, auxVars, client, docs>>

\* What the server answers the request in flight: the describe bodies, the
\* next page of the query's results, or a failure
SyncFailures == {ServerError, RateLimited}
SyncResponses ==
    IF sync.pc = "describe" THEN DescribeBodies \cup SyncFailures
    ELSE IF sync.pc = "fields" THEN {DescribeSobjectBody} \cup SyncFailures
    ELSE IF sync.pc = "cache_stream"
    THEN {QueryPage(CacheQuery(CacheType), sync.refPage + 1, last) :
              last \in {b \in BOOLEAN : sync.refPage + 1 = MaxSyncPages => b}}
            \cup SyncFailures
    ELSE IF sync.pc = "stream"
    THEN {QueryPage(EntityQuery(EntityType), sync.pageNo + 1, last) :
              last \in {b \in BOOLEAN : sync.pageNo + 1 = MaxSyncPages => b}}
            \cup SyncFailures
    ELSE {}

\* The response to the request in flight arrives
SyncResponse ==
    \E r \in SyncResponses :
        /\ Response(Session, r)
        /\ sync' = IF stream_yields(Session, r)
                   THEN IF sync.pc = "cache_stream"
                        THEN [sync EXCEPT !.refPage = @ + 1]
                        ELSE [sync EXCEPT !.pageNo = @ + 1]
                   ELSE sync
        /\ served' = IF sync.pc = "cache_stream" /\ stream_yields(Session, r)
                     THEN Append(served, r)
                     ELSE served
        /\ UNCHANGED <<obs, auxVars, client, docs, calls>>

\* The retry sleep of _get_json is over
SyncGetJsonWake ==
    /\ GetJsonWake(Session)
    /\ UNCHANGED <<served, obs, auxVars, syncVars>>

\* The page stream of a get_* has yielded a batch: for record in records
Batch ==
    /\ sync.pc = "stream"
    /\ task[Session].pc = "yielded"
    /\ sync' = [sync EXCEPT !.pc = "records", !.batch = task[Session].page.records, !.rec = 1]
    /\ UNCHANGED <<coreVars, served, obs, auxVars, client, docs, calls>>

\* The references get_contacts and get_leads resolve: the key the record gets
\* and the field that holds the id
References(n) ==
    CASE n = "Contact" -> <<<<"Account", "AccountId">>, <<"Owner", "OwnerId">>>>
      [] n = "Lead" -> <<<<"Owner", "OwnerId">>, <<"ConvertedAccount", "ConvertedAccountId">>,
                         <<"ConvertedContact", "ConvertedContactId">>,
                         <<"ConvertedOpportunity", "ConvertedOpportunityId">>>>
      [] OTHER -> <<>>
\* The cache table a reference is looked up in
TableOf(reference) ==
    CASE reference = "Owner" -> "User"
      [] reference = "Account" -> "Account"
      [] reference = "ConvertedAccount" -> "Account"
      [] reference = "ConvertedContact" -> "Contact"
      [] reference = "ConvertedOpportunity" -> "Opportunity"
\* sobjects_by_id[table] raises KeyError for a table that is not in the dict
KeyErrors(n, cache) ==
    \E k \in DOMAIN References(n) : TableOf(References(n)[k][1]) \notin DOMAIN cache
\* The document of a record: the record with its references resolved
Document(n, record, cache) ==
    [type |-> lower(n), record |-> record,
     refs |-> [k \in DOMAIN References(n) |->
                  <<References(n)[k][1],
                    dict_get(cache[TableOf(References(n)[k][1])], record[References(n)[k][2]])>>]]

\* The record at hand is mapped and its document yielded, or the loop over
\* the batch is over
RecordDone(sy) ==
    IF sy.rec < Len(sy.batch)
    THEN [sy EXCEPT !.rec = @ + 1]
    ELSE [sy EXCEPT !.pc = "next_page", !.batch = <<>>, !.rec = 0]

\* get_contacts, get_leads: sobjects_cache_by_type() finds nothing memoised,
\* sets the dict and starts to build its tables; the entity stream stays
\* suspended at its yield
SobjectsCache ==
    /\ sync.pc = "records"
    /\ EntityType \in EnrichedTypes
    /\ ~cache_is_memoised(client)
    /\ client' = [client EXCEPT !.sobjects_cache_by_type = Some(EmptyDict)]
    /\ sync' = [sync EXCEPT !.pc = "cache_is_queryable", !.ref = 1, !.refPage = 0,
                            !.table = EmptyTable,
                            !.outer = [task |-> task[Session], yielded |-> yielded]]
    /\ task' = [task EXCEPT ![Session] = IdleTask]
    /\ yielded' = <<>>
    /\ UNCHANGED <<token, lock, issued, started, served, obs, auxVars, docs, calls>>

\* A record of the batch is turned into a document and yielded (for a
\* contact or a lead with the memoised cache dict, whatever it holds)
Record ==
    /\ sync.pc = "records"
    /\ EntityType \in EnrichedTypes => cache_is_memoised(client)
    /\ LET cache == IF EntityType \in EnrichedTypes
                    THEN ValueOf(client.sobjects_cache_by_type)
                    ELSE EmptyDict
       IN  IF KeyErrors(EntityType, cache)
           THEN /\ sync' = SyncRaises(sync, "KeyError")
                /\ task' = [task EXCEPT ![Session] = IdleTask]
                /\ yielded' = <<>>
                /\ UNCHANGED docs
           ELSE /\ docs' = Append(docs, Document(EntityType, sync.batch[sync.rec], cache))
                /\ sync' = RecordDone(sync)
                /\ UNCHANGED <<task, yielded>>
    /\ UNCHANGED <<token, lock, issued, started, served, obs, auxVars, client, calls>>

\* The loop of a get_* asks its page stream for the next batch
NextBatch ==
    /\ sync.pc = "next_page"
    /\ NextPage(Session)
    /\ sync' = [sync EXCEPT !.pc = "stream"]
    /\ UNCHANGED <<served, obs, auxVars, client, docs, calls>>

\* The page stream of a get_* has ended or raised
StreamEnd ==
    /\ sync.pc = "stream"
    /\ task[Session].pc = "done"
    /\ Finish(Session)
    /\ sync' = IF task[Session].exc = NoExc
               THEN NextType(sync)
               ELSE SyncRaises(sync, task[Session].exc)
    /\ UNCHANGED <<served, obs, auxVars, client, docs, calls>>

\* _prepare_sobject_cache(sobject) after _is_queryable: an empty table for a
\* type that is not queryable, else the query for the ids and names
PrepareSobjectCache ==
    /\ sync.pc = "cache_is_queryable"
    /\ sobjects_are_memoised(client)
    /\ IF is_queryable(client, CacheType)
       THEN /\ StreamPages(Session, CacheQuery(CacheType))
            /\ sync' = [sync EXCEPT !.pc = "cache_stream", !.refPage = 0, !.table = EmptyTable]
            /\ calls' = Called(CacheQuery(CacheType))
            /\ UNCHANGED client
       ELSE /\ client' = [client EXCEPT !.sobjects_cache_by_type =
                              Some(dict_put(ValueOf(@), CacheType, EmptyTable))]
            /\ sync' = NextCacheType(sync)
            /\ UNCHANGED <<coreVars, calls>>
    /\ UNCHANGED <<served, obs, auxVars, docs>>

\* The page stream of _prepare_sobject_cache has yielded a batch: its records
\* go into the table, and the next batch is asked for
CacheBatch ==
    /\ sync.pc = "cache_stream"
    /\ task[Session].pc = "yielded"
    /\ NextPage(Session)
    /\ sync' = [sync EXCEPT !.table = cache_records(@, task[Session].page.records)]
    /\ UNCHANGED <<served, obs, auxVars, client, docs, calls>>

\* The page stream of _prepare_sobject_cache has ended, and the table is put
\* into the dict, or it has raised
CacheStreamEnd ==
    /\ sync.pc = "cache_stream"
    /\ task[Session].pc = "done"
    /\ Finish(Session)
    /\ IF task[Session].exc = NoExc
       THEN /\ client' = [client EXCEPT !.sobjects_cache_by_type =
                              Some(dict_put(ValueOf(@), CacheType, sync.table))]
            /\ sync' = NextCacheType(sync)
       ELSE /\ sync' = SyncRaises(sync, task[Session].exc)
            /\ UNCHANGED client
    /\ UNCHANGED <<served, obs, auxVars, docs, calls>>

\* sobjects_cache_by_type() returns the dict: the entity stream's loop goes on
CacheBuilt ==
    /\ sync.pc = "cache_built"
    /\ sync' = [sync EXCEPT !.pc = "records", !.ref = 0,
                            !.outer = [task |-> IdleTask, yielded |-> <<>>]]
    /\ task' = [task EXCEPT ![Session] = sync.outer.task]
    /\ yielded' = sync.outer.yielded
    /\ UNCHANGED <<token, lock, issued, started, served, obs, auxVars, client, docs, calls>>

NextSync ==
    \/ GetDocs
    \/ QueryableSobjects
    \/ Described
    \/ IsQueryable
    \/ Query
    \/ FieldsDescribed
    \/ FieldsNext
    \/ SyncResponse
    \/ SyncGetJsonWake
    \/ Batch
    \/ SobjectsCache
    \/ Record
    \/ NextBatch
    \/ StreamEnd
    \/ PrepareSobjectCache
    \/ CacheBatch
    \/ CacheStreamEnd
    \/ CacheBuilt

SpecSync == InitStarted /\ [][NextSync]_vars

\* The session's caller iterates get_docs again on the same client after a
\* sync that an exception ended while the reference cache was being built
\* The describe endpoints
DescribeUrls == {DescribeUrl} \cup {DescribeSobjectUrl(n) : n \in Range(RELEVANT_SOBJECTS)}
CacheLeftPartial ==
    /\ cache_is_memoised(client)
    /\ DOMAIN ValueOf(client.sobjects_cache_by_type) # Range(CacheTypes)
GetDocsAgain ==
    /\ sync.pc = "done"
    /\ CacheLeftPartial
    /\ task[Session].pc = "idle"
    /\ sync' = [IdleSync EXCEPT !.pc = "is_queryable", !.type = 1, !.run = 2]
    /\ docs' = <<>>
    /\ calls' = [k \in CallKeys |-> IF k \in CacheQueries \cup DescribeUrls THEN calls[k] ELSE 0]
    /\ UNCHANGED <<coreVars, served, obs, auxVars, client>>

\* The session's caller iterates get_docs again on the same client after a
\* sync that an exception ended while queryable_sobject_fields() was
\* describing the relevant objects
FieldsLeftPartial ==
    /\ client.queryable_sobject_fields # None
    /\ DOMAIN ValueOf(client.queryable_sobject_fields) # Range(RELEVANT_SOBJECTS)
GetDocsAfterDescribe ==
    /\ sync.pc = "done"
    /\ sync.run = 1
    /\ FieldsLeftPartial
    /\ task[Session].pc = "idle"
    /\ sync' = [IdleSync EXCEPT !.pc = "is_queryable", !.type = 1, !.run = 2]
    /\ docs' = <<>>
    /\ calls' = [k \in CallKeys |-> IF k \in DescribeUrls THEN calls[k] ELSE 0]
    /\ UNCHANGED <<coreVars, served, obs, auxVars, client>>

NextRedescribe ==
    \/ NextSync
    \/ GetDocsAfterDescribe

SpecRedescribe == InitStarted /\ [][NextRedescribe]_vars

NextResync ==
    \/ NextSync
    \/ GetDocsAgain

SpecResync == InitStarted /\ [][NextResync]_vars

\* ------------------------------------------- SalesforceClient.close: steps
Forbidden == HttpResp(403, TRUE, <<>>, <<>>, "absent", NoNext)
\* What a _get_json call is answered while the client is being closed
CloseResponses == CoarseResponses \cup {Forbidden, TransportError}
\* _get has sent a request in this step, through self.session
Sent(c) == task'[c].pc = "await" /\ task'[c].reqs # task[c].reqs
\* The sessions after a step of a task: _get reads self.session, and
\* generate() posts on the session the token object was given in __init__
session_used(c) ==
    LET h == IF Sent(c) THEN session(http) ELSE http
    IN  IF Posted(c) THEN [h EXCEPT !.stale = token_session_closed(http)] ELSE h
UseSession(c) ==
    /\ http' = session_used(c)
    /\ http'.created <= MaxSessions
    /\ UNCHANGED <<describe, builder, result>>

CloseGetJson ==
    /\ GetJson(Session, DescribeUrl, NoParams)
    /\ obs' = NoObs
    /\ UseSession(Session)
    /\ UNCHANGED <<served, syncVars>>
\* A request that is in flight when the session is closed fails or has
\* been answered; one sent afterwards goes out on a new session
CloseResponse ==
    \E r \in CloseResponses :
        /\ Response(Session, r)
        /\ obs' = ObserveResponse(Session, r)
        /\ UseSession(Session)
        /\ UNCHANGED <<served, syncVars>>
\* A POST on a closed session raises before anything is sent
CloseTokenResponse ==
    \E r \in TokenResponses :
        /\ http.stale => r.kind = "transport"
        /\ TokenResponse(Session, r)
        /\ obs' = [obs EXCEPT !.invalid = @ \/ generate_exception(r) = "InvalidCredentialsException",
                               !.tokResp = r]
        /\ UseSession(Session)
        /\ UNCHANGED <<served, syncVars>>
CloseGetTokenWake ==
    /\ GetTokenWake(Session)
    /\ obs' = [obs EXCEPT !.posts = @ + PostCount(Session)]
    /\ UseSession(Session)
    /\ UNCHANGED <<served, syncVars>>
CloseGetJsonWake ==
    /\ GetJsonWake(Session)
    /\ obs' = [obs EXCEPT !.resp = NoResp]
    /\ UseSession(Session)
    /\ UNCHANGED <<served, syncVars>>
CloseFinish ==
    /\ Finish(Session)
    /\ obs' = NoObs
    /\ UseSession(Session)
    /\ UNCHANGED <<served, syncVars>>
\* close() up to its await: self.api_token.clear(), then self.session is
\* read for the test and for the call of its close()
CloseBegin ==
    /\ ~http.closing
    /\ token' = NoToken
    /\ http' = [session(http) EXCEPT !.closing = TRUE]
    /\ http'.created <= MaxSessions
    /\ UNCHANGED <<task, lock, issued, started, yielded>>
    /\ UNCHANGED <<served, obs, syncVars, describe, builder, result>>
\* close() after its await: the session is closed, "del self.session", and
\* close() returns
CloseEnd ==
    /\ http.closing
    /\ http' = [http EXCEPT !.closing = FALSE, !.closed = @ + 1, !.cached = FALSE,
                            !.returned = TRUE]
    /\ UNCHANGED <<coreVars, served, obs, syncVars, describe, builder, result>>

NextClose ==
    \/ CloseGetJson
    \/ CloseResponse
    \/ CloseTokenResponse
    \/ CloseGetTokenWake
    \/ CloseGetJsonWake
    \/ CloseFinish
    \/ CloseBegin
    \/ CloseEnd

SpecClose == InitStarted /\ [][NextClose]_vars

\* ------------------------------------------------- the schema lookups: steps
InitSchema ==
    /\ task = [c \in Callers |-> IdleTask]
    /\ token = 1
    /\ lock = Free
    /\ issued = 1
    /\ started = TRUE
    /\ yielded = <<>>
    /\ served = <<>>
    /\ obs = NoObs
    /\ client = NoClient
    /\ sync = IdleSync
    /\ docs = <<>>
    /\ calls = NoCalls
    /\ http = NewSession
    /\ describe \in DescribeInputs
    /\ builder = SalesforceSoqlBuilder("none")
    /\ result = NoResult
\* _is_queryable(sobject), with the describe request of its first call
IsQueryableCall ==
    \E sobject \in SobjectArgs :
        /\ client' = queryable_sobjects(client, describe)
        /\ result' = [NoResult EXCEPT !.op = "is_queryable", !.sobject = sobject,
                                      !.bool = is_queryable(client', sobject)]
        /\ UNCHANGED <<coreVars, served, obs, sync, docs, calls, http, describe, builder>>
\* _select_queryable_fields(sobject, fields), with the describe requests of
\* its first call
SelectQueryableFieldsCall ==
    \E sobject \in SelectArgs, fields \in CandidateLists :
        /\ client' = queryable_sobject_fields(client, describe)
        /\ result' = [NoResult EXCEPT !.op = "select", !.sobject = sobject, !.fields = fields,
                                      !.list = select_queryable_fields(client', sobject, fields)]
        /\ UNCHANGED <<coreVars, served, obs, sync, docs, calls, http, describe, builder>>
\* get_accounts, ..., get_leads up to the query: nothing is built for a type
\* that is not queryable.  The columns of the query come in some order of
\* the set of its fields; their names are the same in each.
EntityQueryCall ==
    \E n \in Range(EntityTypes) :
        LET c == queryable_sobject_fields(queryable_sobjects(client, describe), describe)
        IN  /\ client' = IF is_queryable(c, n) THEN c ELSE queryable_sobjects(client, describe)
            /\ builder' = IF is_queryable(c, n)
                           THEN entity_query_builder(c, n)
                           ELSE builder
            /\ result' = IF is_queryable(c, n)
                          THEN [NoResult EXCEPT !.op = "query", !.sobject = n,
                                                !.text = build(builder', first_seen(builder'.fields))]
                          ELSE [NoResult EXCEPT !.op = "skipped", !.sobject = n]
            /\ UNCHANGED <<coreVars, served, obs, sync, docs, calls, http, describe>>
\* _prepare_sobject_cache(sobject) up to the query
CacheQueryCall ==
    \E n \in Range(CacheTypes) :
        LET c == queryable_sobjects(client, describe)
        IN  /\ client' = c
            /\ builder' = IF is_queryable(c, n) THEN prepare_sobject_cache_builder(n) ELSE builder
            /\ result' = IF is_queryable(c, n)
                          THEN [NoResult EXCEPT !.op = "cache_query", !.sobject = n,
                                                !.text = build(builder', first_seen(builder'.fields))]
                          ELSE [NoResult EXCEPT !.op = "skipped", !.sobject = n]
            /\ UNCHANGED <<coreVars, served, obs, sync, docs, calls, http, describe>>

NextSchema ==
    \/ IsQueryableCall
    \/ SelectQueryableFieldsCall
    \/ EntityQueryCall
    \/ CacheQueryCall

SpecSchema == InitSchema /\ [][NextSchema]_vars

\* ------------------------------------------ SalesforceSoqlBuilder: steps
\* The lists with_fields is called with
FieldArgs == {<<"Name">>, <<"Name", "Name">>}
\* A call of a with_* method on the builder
With(b) ==
    /\ Len(b.fields) <= MaxBuilderFields
    /\ builder' = b
    /\ result' = NoResult
    /\ UNCHANGED <<coreVars, served, obs, syncVars, http, describe>>
NewBuilder == With(SalesforceSoqlBuilder("Account"))
WithId == With(with_id(builder))
WithDefaultMetafields == With(with_default_metafields(builder))
WithFields == \E fields \in FieldArgs : With(with_fields(builder, fields))
WithWhere == With(with_where(builder, "Name != null"))
WithOrderBy == With(with_order_by(builder, "CreatedDate DESC"))
WithLimit == With(with_limit(builder, "1"))
\* build() is called; the set of the fields is iterated in one of its orders
Build ==
    \E order \in set_orders(builder.fields) :
        /\ result' = [NoResult EXCEPT !.op = "build", !.text = build(builder, order),
                                      !.before = result.text]
        /\ builder' = build_leaves(builder)
        /\ UNCHANGED <<coreVars, served, obs, syncVars, http, describe>>

NextBuilder ==
    \/ NewBuilder
    \/ WithId
    \/ WithDefaultMetafields
    \/ WithFields
    \/ WithWhere
    \/ WithOrderBy
    \/ WithLimit
    \/ Build

SpecBuilder == InitStarted /\ [][NextBuilder]_vars

\* ------------------------------------------------ get_* and the mapper: steps
\* A record of each type as the query returns it with every field set
FullOwner == [Id |-> Str("u1"), Name |-> Str("Bob"), Email |-> Str("bob@example.com")]
FullAddress ==
    [street |-> Str("1 Main St"), city |-> Str("Springfield"), state |-> Str("OR"),
     postalCode |-> Str("97477"), country |-> Str("US")]
FullAccount ==
    [Id |-> Str("a1"), Type |-> Str("Customer"), BillingAddress |-> FullAddress,
     Description |-> Str("A customer"), CreatedDate |-> Str("2023-01-01"),
     LastModifiedDate |-> Str("2023-02-02"), Rating |-> Str("Hot"), Name |-> Str("Acme"),
     Website |-> Str("acme.example.com"), Owner |-> FullOwner,
     Opportunities |-> [records |-> <<[Id |-> Str("o1"), Name |-> Str("Deal"),
                                       StageName |-> Str("Won")]>>]]
FullOpportunity ==
    [Id |-> Str("o1"), Description |-> Str("A deal"), CreatedDate |-> Str("2023-01-01"),
     LastModifiedDate |-> Str("2023-02-02"), NextStep |-> Str("Call"),
     StageName |-> Str("Won"), Name |-> Str("Deal"), Owner |-> FullOwner]
FullContact ==
    [Id |-> Str("c1"), Name |-> Str("Jane"), AccountId |-> Str("a1"), OwnerId |-> Str("u1"),
     PhotoUrl |-> Str("/photo/c1"), Description |-> Str("A contact"),
     Email |-> Str("jane@example.com"), Title |-> Str("CTO"),
     LastModifiedDate |-> Str("2023-02-02"), LeadSource |-> Str("Web"),
     Phone |-> Str("555-0100")]
FullLead ==
    [Id |-> Str("l1"), Name |-> Str("Joe"), OwnerId |-> Str("u1"),
     ConvertedAccountId |-> Str("a1"), ConvertedContactId |-> Str("c1"),
     ConvertedOpportunityId |-> Str("o1"), PhotoUrl |-> Str("/photo/l1"),
     Description |-> Str("A lead"), Company |-> Str("Acme"),
     ConvertedDate |-> Str("2023-03-03"), Email |-> Str("joe@example.com"),
     Title |-> Str("CEO"), LastModifiedDate |-> Str("2023-02-02"), LeadSource |-> Str("Web"),
     Phone |-> Str("555-0101"), Rating |-> Str("Hot"), Status |-> Str("Converted")]
FullRecord(n) ==
    CASE n = "Account" -> FullAccount
      [] n = "Opportunity" -> FullOpportunity
      [] n = "Contact" -> FullContact
      [] n = "Lead" -> FullLead
Restrict(d, keys) == [k \in keys |-> d[k]]
\* The records a query can return: the full one with any one or two of its
\* fields missing, with none or all missing, or with only four of them
Missing(keys) == {{}, keys} \cup {{a, b} : a, b \in keys}
MappedRecords(n) ==
    {Restrict(FullRecord(n), DOMAIN FullRecord(n) \ m) : m \in Missing(DOMAIN FullRecord(n))}
      \cup {Restrict(FullContact, {"Id", "Name", "AccountId", "OwnerId"}) : x \in {n} \cap {"Contact"}}
\* The reference cache: each table has the entry the full records point to,
\* or is empty
FullTable(n) ==
    CASE n = "Account" -> (Str("a1") :> [Id |-> Str("a1"), Name |-> Str("Acme")])
      [] n = "Contact" -> (Str("c1") :> [Id |-> Str("c1"), Name |-> Str("Jane"),
                                          Email |-> Str("jane@example.com")])
      [] n = "Opportunity" -> (Str("o1") :> [Id |-> Str("o1"), Name |-> Str("Deal")])
      [] n = "User" -> (Str("u1") :> FullOwner)
MappedCaches ==
    {[n \in Range(CacheTypes) |-> IF n \in full THEN FullTable(n) ELSE NoDict] :
        full \in SUBSET Range(CacheTypes)}
InitMapper ==
    /\ task = [c \in Callers |-> IdleTask]
    /\ token = 1
    /\ lock = Free
    /\ issued = 1
    /\ started = TRUE
    /\ yielded = <<>>
    /\ served = <<>>
    /\ obs = NoObs
    /\ sync = IdleSync
    /\ docs = <<>>
    /\ calls = NoCalls
    /\ http = NewSession
    /\ describe = NoDescribe
    /\ builder = SalesforceSoqlBuilder("none")
    /\ \E n \in Range(EntityTypes) :
           /\ \E record \in MappedRecords(n) :
                  result = [NoResult EXCEPT !.sobject = n, !.record = record]
           /\ \E cache \in IF n \in EnrichedTypes THEN MappedCaches ELSE {NoDict} :
                  client = [NoClient EXCEPT !.sobjects_cache_by_type = Some(cache)]

\* Mutant: the owner of a contact is looked up among the accounts
enrich_contact_owner_in_accounts(record, sobjects_by_id) ==
    dict_set(dict_set(record, "Account",
                      get_or(sobjects_by_id["Account"], item(record, "AccountId"), NoDict)),
             "Owner", get_or(sobjects_by_id["Account"], item(record, "OwnerId"), NoDict))
\* get_contacts: the record gets its account and its owner from the cache
enrich_contact(record, sobjects_by_id) ==
    dict_set(dict_set(record, "Account",
                      get_or(sobjects_by_id["Account"], item(record, "AccountId"), NoDict)),
             "Owner", get_or(sobjects_by_id["User"], item(record, "OwnerId"), NoDict))
\* get_leads: the record gets its owner and what it was converted to
enrich_lead(record, sobjects_by_id) ==
    LET r1 == dict_set(record, "Owner",
                       get_or(sobjects_by_id["User"], item(record, "OwnerId"), NoDict))
        r2 == dict_set(r1, "ConvertedAccount",
                       get_or(sobjects_by_id["Account"], item(record, "ConvertedAccountId"),
                              NoDict))
        r3 == dict_set(r2, "ConvertedContact",
                       get_or(sobjects_by_id["Contact"], item(record, "ConvertedContactId"),
                              NoDict))
    IN  dict_set(r3, "ConvertedOpportunity",
                 get_or(sobjects_by_id["Opportunity"], item(record, "ConvertedOpportunityId"),
                        NoDict))
\* The record a get_* hands to its map_*, and the document that returns
enriched(n, record, sobjects_by_id) ==
    CASE n = "Contact" -> enrich_contact(record, sobjects_by_id)
      [] n = "Lead" -> enrich_lead(record, sobjects_by_id)
      [] OTHER -> record
map_record(n, record) ==
    CASE n = "Account" -> map_account(record)
      [] n = "Opportunity" -> map_opportunity(record)
      [] n = "Contact" -> map_contact(record)
      [] n = "Lead" -> map_lead(record)
\* The loop body of a get_* for one record of its page
Mapped(n) ==
    /\ result.op = "none"
    /\ result.sobject = n
    /\ LET record == enriched(n, result.record, ValueOf(client.sobjects_cache_by_type))
       IN  result' = [result EXCEPT !.op = "map", !.record = record,
                                    !.doc = map_record(n, record),
                                    !.after = record_after_map(record)]
    /\ UNCHANGED <<coreVars, served, obs, syncVars, http, describe, builder>>
GetAccountsRecord == Mapped("Account")
GetOpportunitiesRecord == Mapped("Opportunity")
GetContactsRecord == Mapped("Contact")
GetLeadsRecord == Mapped("Lead")
\* The mapper is called once more with the record as the first call left it
MapAgain ==
    /\ result.op = "map"
    /\ result' = [result EXCEPT !.op = "map_again",
                                !.again = map_record(result.sobject, result.after)]
    /\ UNCHANGED <<coreVars, served, obs, syncVars, http, describe, builder>>

NextMapper ==
    \/ GetAccountsRecord
    \/ GetOpportunitiesRecord
    \/ GetContactsRecord
    \/ GetLeadsRecord
    \/ MapAgain

SpecMapper == InitMapper /\ [][NextMapper]_vars

\* ------------------------------------------------------------------ claims
Sess == task[Session]
RateLimitCode == "REQUEST_LIMIT_EXCEEDED"
\* The exception a transient failure is raised as
TransientException(r) ==
    IF r.kind = "transport" THEN "Exception"
    ELSE IF r.status >= 500 THEN "ClientResponseError"
    ELSE "RequestError"

\* C1: a request reissued after a 401 is the rejected request (same URL and
\* params), sent after the token was cleared and refreshed: it carries a
\* token, and not the rejected one.
C1_ReissueCarriesNewToken ==
    (Sess.pc = "await" /\ obs.after401) =>
        /\ Sess.sentUrl = obs.rejUrl
        /\ Sess.sentParams = obs.rejParams
        /\ Sess.sentTok # NoToken
        /\ Sess.sentTok # obs.rejTok

\* C4: once the token endpoint has rejected the client identity, the
\* operation is over: InvalidCredentialsException is raised to the caller,
\* with no retry sleep, no further request and no further token exchange.
C4_InvalidCredentialsNotRetried ==
    obs.invalid => (Sess.pc = "done" /\ Sess.exc = "InvalidCredentialsException")

\* C5: a _get_json call sends at most RETRIES requests; two transient failures
\* followed by a success return after exactly 3 requests; a transient failure
\* of the third request is raised to the caller.
C5_RetryBudget ==
    Sess.op = "get_json" =>
        /\ Sess.reqs <= RETRIES
        /\ (Sess.pc = "done" /\ Sess.exc = NoExc /\ obs.transient = 2) => Sess.reqs = 3
        /\ (Sess.reqs = RETRIES /\ Transient(obs.resp)) =>
               (Sess.pc = "done" /\ Sess.exc = TransientException(obs.resp))
C5_Witness ==
    /\ Sess.op = "get_json" /\ Sess.pc = "done" /\ Sess.exc = NoExc
    /\ obs.transient = 2 /\ Sess.reqs = 3

\* C6: a 4xx other than 401 whose error list holds REQUEST_LIMIT_EXCEEDED,
\* whatever else it holds, ends the call with RateLimitedException: no retry
\* sleep follows it and no request is sent after the rate-limited one.
C6_RateLimitedNotRetried ==
    (ClientError(obs.resp) /\ RateLimitCode \in SentCodes(obs.resp)) =>
        /\ Sess.pc = "done"
        /\ Sess.exc = "RateLimitedException"
        /\ Sess.reqs = obs.failed
C6_Witness ==
    /\ ClientError(obs.resp)
    /\ SentCodes(obs.resp) = {"INVALID_FIELD", RateLimitCode}
    /\ Sess.pc = "done" /\ Sess.exc = "RateLimitedException" /\ Sess.reqs = 1

\* C7: a 4xx other than 401 whose error list holds INVALID_FIELD, INVALID_TERM
\* or MALFORMED_QUERY and not REQUEST_LIMIT_EXCEEDED ends the call with
\* InvalidQueryException: no retry sleep follows it and no request is sent
\* after it.
C7_InvalidQueryNotRetried ==
    (/\ ClientError(obs.resp)
     /\ SentCodes(obs.resp) \cap InvalidQueryCodes # {}
     /\ RateLimitCode \notin SentCodes(obs.resp)) =>
        /\ Sess.pc = "done"
        /\ Sess.exc = "InvalidQueryException"
        /\ Sess.reqs = obs.failed

\* C8: a 4xx other than 401 with none of the four named codes is raised as
\* RequestError and retried until the third attempt; an empty or absent body
\* counts as the single error code "unknown".
C8_RequestErrorRetried ==
    (/\ ClientError(obs.resp)
     /\ SentCodes(obs.resp) \cap ({RateLimitCode} \cup InvalidQueryCodes) = {}) =>
        /\ Sess.exc = "RequestError"
        /\ Sess.pc = IF Sess.retry < RETRIES THEN "gj_sleep" ELSE "done"
        /\ Sess.reqs = Sess.retry
        /\ (obs.resp.absent \/ obs.resp.errors = <<>>) => Sess.errorCodes = <<"unknown">>
        /\ Range(Sess.errorCodes) \cap ({RateLimitCode} \cup InvalidQueryCodes) = {}
C8_Witness ==
    /\ ClientError(obs.resp) /\ obs.resp.absent
    /\ Sess.exc = "RequestError" /\ Sess.errorCodes = <<"unknown">>
    /\ Sess.pc = "gj_sleep" /\ Sess.retry = 2

\* The step in which task c handles a 401: clear(), then get_token()
Handles401(c) == \E r \in CoarseResponses : r.status = 401 /\ Response(c, r)
\* The steps in which task c calls generate()
GenerateCalled(c) == GetTokenWake(c) \/ Handles401(c)

\* C2: at most one token exchange is in flight; a generate() called while the
\* lock is held raises LockedException at once (get_token has returned by the
\* end of the step, the task is not waiting), posts nothing and leaves the
\* lock and the token as they were, apart from the clear() that a 401 handler
\* runs before the call.
C2_NonBlockingRefresh ==
    [][/\ Cardinality({c \in Callers : task'[c].pc = "gen_wait"}) <= 1
       /\ \A c \in Callers :
            (GenerateCalled(c) /\ lock # Free) =>
                /\ task'[c].locked
                /\ task'[c].pc \in {"gj_sleep", "done"}
                /\ lock' = lock
                /\ issued' = issued
                /\ token' # token => (Handles401(c) /\ token' = NoToken)]_vars
C2_Witness ==
    \E c \in Callers :
        /\ task[c].locked
        /\ lock \notin {Free, c}
        /\ task[lock].pc = "gen_wait"

\* C3: while a refresh is in flight, only its owner changes the token: a task
\* that handles a 401 in that window observes LockedException and leaves the
\* token as it was.
C3_OnlyOwnerMutates ==
    [][lock # Free =>
          /\ token' # token => \E r \in TokenResponses : TokenResponse(lock, r)
          /\ \A c \in Callers : Handles401(c) => task'[c].locked]_vars

\* The pages of the example: P1 = [a, b], not done, next = U2; P2 = [c], done
PageOne == HttpResp(200, FALSE, <<>>, <<"a", "b">>, "False", "U2")
PageTwo == HttpResp(200, FALSE, <<>>, <<"c">>, "True", NoNext)
LastServed == served[Len(served)]

\* C9: the stream yields the records of the served pages, in order, one batch
\* per successful fetch; the requests for the first page go to the query
\* endpoint with the query as q, those for a later page to the nextRecordsUrl
\* of the page before with no params; after a page with done = true nothing
\* is fetched; P1 then P2 yield [[a, b], [c]] with two successful fetches.
C9_PagesInOrder ==
    Sess.op = "stream" =>
        /\ yielded = [i \in DOMAIN served |-> served[i].records]
        /\ obs.sent = Len(served) + obs.failed + (IF Sess.pc = "await" THEN 1 ELSE 0)
        /\ Sess.pc \in {"await", "gj_sleep"} =>
              IF served = <<>>
              THEN Sess.sentUrl = QueryUrl /\ Sess.sentParams \in Queries
              ELSE Sess.sentUrl = next_records_url(LastServed) /\ Sess.sentParams = NoParams
        /\ (served # <<>> /\ LastServed.done = "True") => Sess.pc \in {"yielded", "done"}
        /\ (served = <<PageOne, PageTwo>>) =>
              (yielded = <<<<"a", "b">>, <<"c">>>> /\ obs.sent = 2 + obs.failed)
C9_Witness ==
    /\ Sess.op = "stream" /\ Sess.pc = "done" /\ Sess.exc = NoExc
    /\ served = <<PageOne, PageTwo>>
    /\ yielded = <<<<"a", "b">>, <<"c">>>>
    /\ obs.sent = 2

\* C10: a page without a done flag is the last one: its records are yielded
\* and nothing is fetched after it, with or without a nextRecordsUrl.
C10_MissingDoneEndsStream ==
    (Sess.op = "stream" /\ served # <<>> /\ LastServed.done = "absent") =>
        /\ Sess.pc \in {"yielded", "done"}
        /\ Sess.exc = NoExc
        /\ yielded[Len(yielded)] = LastServed.records
C10_Witness ==
    /\ Sess.op = "stream" /\ Sess.pc = "done" /\ Sess.exc = NoExc
    /\ served # <<>> /\ LastServed.done = "absent" /\ LastServed.next = "U2"
    /\ yielded[Len(yielded)] = LastServed.records

\* The stream holds a page that asks for another fetch: done is present and
\* is not true, and a nextRecordsUrl came with it
ContinuingPage ==
    /\ Sess.op = "stream" /\ Sess.pc = "yielded"
    /\ Sess.page.done \notin {"True", "absent"}
    /\ Sess.page.next # NoNext
StreamEnded == Sess.pc = "done"

\* C11: the page stream of a query ends (by a completion signal or by an
\* error) after finitely many fetches, whatever the server answers.
C11_StreamTerminates == (Sess.op = "stream") ~> StreamEnded

\* C11, amended: the page stream ends once the server stops serving pages
\* that carry both a done flag that is not true and a nextRecordsUrl.
C11_StreamEndsWithoutContinuingPages ==
    <>[](~ContinuingPage) => ((Sess.op = "stream") ~> StreamEnded)
C11_Witness ==
    /\ Sess.op = "stream" /\ StreamEnded /\ Sess.exc = NoExc
    /\ Sess.sentUrl \in NextUrls
    /\ Sess.page.done = "absent" /\ Sess.page.next # NoNext


\* The tables sobjects_cache_by_type() has put into its dict so far
CacheDict == ValueOf(client.sobjects_cache_by_type)
\* The records the server has sent in answer to the cache query of a type
FetchedRecords(n) ==
    {rec \in UNION {Range(served[i].records) : i \in DOMAIN served} : rec.Id[1] = n}
\* The documents of a type get_docs has yielded
DocsOf(n) == SelectSeq(docs, LAMBDA d : d.type = lower(n))

\* C12: in a session the cache query of a reference type is never sent twice,
\* however many contact and lead records ask for the cache; every table in
\* the dict comes from exactly one query if its type is queryable (from none
\* if it is not), and maps the Id of every record fetched to that record
C12_CacheFetchedOnce ==
    /\ \A k \in DOMAIN CacheTypes : calls[CacheQuery(CacheTypes[k])] <= 1
    /\ cache_is_memoised(client) =>
           \A n \in DOMAIN CacheDict :
               /\ calls[CacheQuery(n)] = IF is_queryable(client, n) THEN 1 ELSE 0
               /\ DOMAIN CacheDict[n] = {rec.Id : rec \in FetchedRecords(n)}
               /\ \A rec \in FetchedRecords(n) : CacheDict[n][rec.Id] = rec
\* Two contacts and a lead have asked for the cache, and each of the four
\* queries was sent once
C12_Witness ==
    /\ Len(DocsOf("Contact")) >= 2
    /\ Len(DocsOf("Lead")) >= 1
    /\ \A k \in DOMAIN CacheTypes : calls[CacheQuery(CacheTypes[k])] = 1
    /\ \A k \in DOMAIN CacheTypes : FetchedRecords(CacheTypes[k]) # {}


\* C13: a failure while one table of the reference cache is built does not
\* keep the other tables from being built and used later in the session: a
\* later get_docs that comes to a contact or a lead finds every table but the
\* failed one in the dict, and no lookup fails for a missing table
C13_TablesIndependent ==
    /\ sync.exc # "KeyError"
    /\ (sync.run = 2 /\ sync.pc = "records" /\ EntityType \in EnrichedTypes) =>
           Cardinality(Range(CacheTypes) \ DOMAIN CacheDict) <= 1


\* The describe request has been answered, and what it said of a type
ListKnown == client.queryable_sobjects # None
Queryable(n) == lower(n) \in ValueOf(client.queryable_sobjects)
\* The records a document's references were resolved to in the table of a type
ResolvedIn(d, n) ==
    {d.refs[k][2] : k \in {j \in DOMAIN d.refs : TableOf(d.refs[j][1]) = n}}

\* C14: for a reference type that is not queryable no cache query is sent,
\* its table in the dict is the empty mapping, the build does not raise
\* there, and every document's reference into that table is the empty record
C14_NotQueryableReferenceIsEmpty ==
    ListKnown =>
        \A k \in DOMAIN CacheTypes :
            ~Queryable(CacheTypes[k]) =>
                /\ calls[CacheQuery(CacheTypes[k])] = 0
                /\ (cache_is_memoised(client) /\ CacheTypes[k] \in DOMAIN CacheDict) =>
                       CacheDict[CacheTypes[k]] = EmptyTable
                /\ (sync.run = 1 /\ sync.ref > k) => CacheTypes[k] \in DOMAIN CacheDict
                /\ (sync.pc = "done" /\ sync.ref = k) => sync.exc = NoExc
                /\ \A i \in DOMAIN docs : ResolvedIn(docs[i], CacheTypes[k]) \subseteq {EmptyRecord}
\* User is not queryable: contacts and leads were yielded with an empty
\* Owner, and get_docs has ended without an exception
C14_Witness ==
    /\ ListKnown
    /\ ~Queryable("User")
    /\ cache_is_memoised(client)
    /\ "User" \in DOMAIN CacheDict
    /\ Len(DocsOf("Contact")) >= 2
    /\ Len(DocsOf("Lead")) >= 1
    /\ \E i \in DOMAIN docs : ResolvedIn(docs[i], "User") = {EmptyRecord}
    /\ \E i \in DOMAIN docs : \E r \in ResolvedIn(docs[i], "Account") : r # EmptyRecord
    /\ sync.pc = "done"
    /\ sync.exc = NoExc


\* C15: an entity type that is not queryable yields no document, no query
\* for the type is sent, get_docs does not end with an exception at that
\* type, and a run that ends normally has queried every queryable type
C15_NotQueryableEntityIsSkipped ==
    ListKnown =>
        \A k \in DOMAIN EntityTypes :
            ~Queryable(EntityTypes[k]) =>
                /\ DocsOf(EntityTypes[k]) = <<>>
                /\ calls[EntityQuery(EntityTypes[k])] = 0
                /\ EntityTypes[k] \in Range(CacheTypes) => calls[CacheQuery(EntityTypes[k])] = 0
                /\ (sync.pc = "done" /\ sync.type = k) => sync.exc = NoExc
                /\ (sync.pc = "done" /\ sync.exc = NoExc) =>
                       \A m \in DOMAIN EntityTypes :
                           Queryable(EntityTypes[m]) => calls[EntityQuery(EntityTypes[m])] = 1
\* Opportunity is not queryable: accounts before it and contacts and leads
\* after it were yielded, and get_docs has ended without an exception
C15_Witness ==
    /\ ListKnown
    /\ ~Queryable("Opportunity")
    /\ Len(DocsOf("Account")) >= 1
    /\ Len(DocsOf("Contact")) >= 1
    /\ Len(DocsOf("Lead")) >= 1
    /\ sync.pc = "done"
    /\ sync.exc = NoExc


IsPrefix(s, t) == Len(s) <= Len(t) /\ SubSeq(t, 1, Len(s)) = s
\* The page stream of the entity type at hand has raised: the failure has
\* escaped the retries of _get_json
StreamRaised ==
    sync.pc = "stream" /\ task[Session].pc = "done" /\ task[Session].exc # NoExc
\* get_docs has ended with the exception of an entity type's page stream
EndedInStream == sync.pc = "done" /\ sync.at = "stream"

\* C16: when the page stream of an entity type raises, get_docs ends with
\* that exception; the documents yielded stay as they are, the failed type
\* has only the documents of the pages received before, and no later type
\* has a query sent or a document yielded
C16_OutcomeOfStreamFailure ==
    EndedInStream =>
        /\ sync.exc # NoExc
        /\ Len(DocsOf(EntityType)) = 2 * sync.pageNo
        /\ \A m \in DOMAIN EntityTypes :
               m > sync.type => /\ calls[EntityQuery(EntityTypes[m])] = 0
                                /\ DocsOf(EntityTypes[m]) = <<>>
C16_StepOfStreamFailure ==
    /\ sync.pc # "done" => IsPrefix(docs, docs')
    /\ StreamRaised =>
           /\ sync'.pc = "done"
           /\ sync'.exc = task[Session].exc
           /\ UNCHANGED <<docs, calls>>
    /\ (EndedInStream /\ sync'.pc = "done") => UNCHANGED <<docs, calls>>
C16_StreamFailureEndsGetDocs ==
    []C16_OutcomeOfStreamFailure /\ [][C16_StepOfStreamFailure]_vars
\* The second page of the opportunities failed after the accounts and the
\* first page of opportunities were yielded
C16_Witness ==
    /\ EndedInStream
    /\ sync.type = 2
    /\ sync.pageNo = 1
    /\ Len(DocsOf("Account")) >= 2
    /\ Len(DocsOf("Opportunity")) = 2
    /\ sync.exc = "ClientResponseError"


\* The place of a document in the order of get_docs: its type's place, the
\* page of its record and the record's place in the page
FixedOrder == <<"account", "opportunity", "contact", "lead">>
PlaceOfType(t) == CHOOSE k \in DOMAIN FixedOrder : FixedOrder[k] = t
Place(d) == <<PlaceOfType(d.type), d.record.Id[2], d.record.Id[3]>>
Before(p, q) ==
    \/ p[1] < q[1]
    \/ p[1] = q[1] /\ p[2] < q[2]
    \/ p[1] = q[1] /\ p[2] = q[2] /\ p[3] < q[3]

\* C17: the documents get_docs has yielded are in the order Account,
\* Opportunity, Contact, Lead, within a type in the order of the pages and
\* within a page in the order of its records, without gaps; a document of a
\* type is yielded only while that type's get_* runs, after those of the
\* types before it have ended
C17_DocsInFixedOrder ==
    /\ \A i, j \in DOMAIN docs : i < j => Before(Place(docs[i]), Place(docs[j]))
    /\ \A i \in DOMAIN docs : PlaceOfType(docs[i].type) <= sync.type
    /\ \A k \in DOMAIN FixedOrder :
           LET ds == SelectSeq(docs, LAMBDA d : d.type = FixedOrder[k])
           IN  \A i \in DOMAIN ds :
                   /\ ds[i].record.Id[2] = (i + 1) \div 2
                   /\ ds[i].record.Id[3] = 2 - (i % 2)
\* Two pages of every type were yielded
C17_Witness ==
    /\ Len(docs) = 16
    /\ sync.pc = "done"


\* A request of _get_json is sent in this step
RequestSent == Sess'.pc = "await" /\ Sess'.reqs # Sess.reqs
\* The response that arrives in this step is a 401
Is401Response == Sess.pc = "await" /\ obs'.resp.kind = "http" /\ obs'.resp.status = 401

\* C18: no request is sent before the top-level get_token() has returned
\* with a token issued; from then on the token endpoint is contacted only by
\* the handler of a 401 response or by a retry of the get_token that handler
\* called, the token is cleared only by that handler and set only by that
\* get_token; no other response changes the token or starts an exchange
C18_RefreshOnlyAfter401 ==
    /\ RequestSent => (started /\ issued >= 1)
    /\ (started /\ Posted(Session)) =>
           \/ Is401Response
           \/ Sess.pc = "gt_sleep" /\ obs.after401
    /\ (started /\ token' # token) =>
           \/ Is401Response /\ token' = NoToken
           \/ Sess.pc = "gen_wait" /\ obs.after401 /\ token' # NoToken
C18_TokenEndpointOnlyAfter401 == [][C18_RefreshOnlyAfter401]_vars
\* A 401 was answered by a refresh, and the request is out again with the
\* second token
C18_Witness ==
    /\ started
    /\ obs.after401
    /\ obs.posts >= 1
    /\ issued = 2
    /\ Sess.pc = "await"
    /\ Sess.sentTok = 2


\* The token endpoint answers in this step, and what it answers
TokenAnswered == Sess.pc = "gen_wait" /\ Sess'.pc # "gen_wait"
TokenGranted(r) == r.kind = "http" /\ r.status < 400
TokenFetchFailure(r) ==
    /\ r.kind = "http" /\ r.status >= 400
    /\ ~(r.status < 500 /\ r.error = "invalid_client")
\* get_token has raised e to its caller: get_docs, or the 401 handler in the
\* body of _get_json
GetTokenRaised(t, e) ==
    /\ t.exc = e
    /\ IF t.op = "get_token" THEN t.pc = "done" ELSE t.pc \in {"done", "gj_sleep"}

\* C19: every attempt of get_token is one exchange with the token endpoint.
\* An answer that grants a token sets it; an answer that does not leaves the
\* token as it was.  A 4xx or 5xx other than invalid_client is raised as
\* TokenFetchException, after which get_token sleeps and tries again, up to
\* RETRIES exchanges; the failure of the last one is raised to its caller.
C19_RefreshAttempt ==
    /\ Sess.tretry <= RETRIES
    /\ (Sess.pc = "gt_sleep" /\ Sess'.pc # "gt_sleep") =>
           (Posted(Session) /\ Sess'.tretry = Sess.tretry + 1)
    /\ Posted(Session) => obs'.posts = obs.posts + 1
    /\ TokenAnswered =>
           LET r == obs'.tokResp
           IN  /\ TokenGranted(r) => (issued' = issued + 1 /\ token' = issued' /\ token' # NoToken)
               /\ ~TokenGranted(r) => UNCHANGED <<token, issued>>
               /\ TokenFetchFailure(r) =>
                      IF Sess.tretry < RETRIES
                      THEN Sess'.pc = "gt_sleep" /\ Sess'.exc = "TokenFetchException"
                      ELSE GetTokenRaised(Sess', "TokenFetchException")
    /\ ~TokenAnswered => (token' = token \/ token' = NoToken)
C19_OneExchangePerAttempt == [][C19_RefreshAttempt]_vars
\* The top-level get_token has raised TokenFetchException after three
\* exchanges, and there is still no token
C19_Witness ==
    /\ Sess.op = "get_token"
    /\ Sess.pc = "done"
    /\ Sess.exc = "TokenFetchException"
    /\ Sess.tretry = RETRIES
    /\ obs.posts = RETRIES
    /\ obs.tokResp.status = 500
    /\ token = NoToken


\* C20: LockedException never leaves get_token.  When generate() finds the
\* lock held, get_token returns at once: it neither sleeps for a retry nor
\* sends a token exchange, and its caller goes on (the 401 handler raises
\* the 401 it handles, which is what _get_json's retry sees)
C20_LockedExceptionNotSurfaced ==
    \A c \in Callers :
        /\ task[c].exc # "LockedException"
        /\ task[c].locked =>
               /\ task[c].pc \notin {"gt_sleep", "gen_wait"}
               /\ lock # c
               /\ IF task[c].op = "get_token"
                  THEN task[c].pc = "done" /\ task[c].exc = NoExc
                  ELSE task[c].pc \in {"done", "gj_sleep"} /\ task[c].exc = "ClientResponseError"
\* A task's 401 handler found the lock held by the other task's refresh
C20_Witness ==
    \E c, d \in Callers :
        /\ c # d
        /\ task[c].locked
        /\ task[c].pc = "gj_sleep"
        /\ task[d].pc = "gen_wait"
        /\ lock = d


\* The request of a task whose get_token found the lock held is sent again
\* in this step
RejectedReissues(c) ==
    task[c].locked /\ task[c].pc = "gj_sleep" /\ task'[c].pc = "await"

\* C21: a task whose get_token found a refresh in flight sends its request
\* again only when that refresh is over, so with the token it brought, and
\* while the refresh is in flight only its owner contacts the token endpoint
C21_RejectedCallerStep ==
    \A c \in Callers :
        /\ RejectedReissues(c) => (lock = Free /\ task'[c].sentTok # NoToken)
        /\ (lock \notin {Free, c}) => ~Posted(c)
C21_ReissueAfterRefresh == [][C21_RejectedCallerStep]_vars


\* A step of close(): its beginning, which clears the token
CloseClears == ~http.closing /\ http'.closing
\* C22: the credential is absent or a token that a successful exchange with
\* the token endpoint returned; it changes only when generate() succeeds (to
\* the token just issued) or when clear() runs (to absent), and clear() runs
\* only on a 401 response and in close().
C22_TokenIsIssued == token = NoToken \/ token \in 1..issued
C22_TokenStep ==
    token' # token =>
        \/ /\ TokenAnswered
           /\ TokenGranted(obs'.tokResp)
           /\ issued' = issued + 1
           /\ token' = issued'
        \/ /\ token' = NoToken
           /\ Is401Response \/ CloseClears
C22_CredentialChanges == []C22_TokenIsIssued /\ [][C22_TokenStep]_vars
\* A refresh after a 401 has put a new token in place, and close() has run
\* and cleared one before
C22_Witness ==
    /\ token = 2
    /\ TokenGranted(obs.tokResp)
    /\ http.returned

\* C23: one HTTP session is created per client instance and it is closed
\* once, and once close() has returned the credential is absent and stays
\* so, however often close() is called and whatever refresh is in flight
\* when it is called.
C23_OneSessionNoTokenAfterClose ==
    /\ http.created <= 1
    /\ http.closed <= 1
    /\ http.returned => token = NoToken

\* A retry delay of the call is pending
Sleeping == Sess.pc \in {"gj_sleep", "gt_sleep"}
\* C24: when the session is closed while a retry delay is pending, the
\* delay is over with the close, and the call that waited sends no request
\* any more once close() has returned.
C24_CloseStep ==
    /\ (Sleeping /\ http.closing /\ ~http'.closing) => ~Sleeping'
    /\ (Sleeping /\ http.returned) => ~(Sent(Session) \/ Posted(Session))
C24_CloseAbortsRetryDelay == [][C24_CloseStep]_vars


\* The two schema lookups as the client holds them
SobjectsMemo == client.queryable_sobjects
FieldsMemo == client.queryable_sobject_fields
\* queryable_sobject_fields() has described every relevant object
FieldsComplete ==
    FieldsMemo # None /\ DOMAIN ValueOf(FieldsMemo) = Range(RELEVANT_SOBJECTS)
\* C25: while describe requests succeed, the global describe endpoint is
\* requested exactly once and the describe endpoint of each relevant object
\* exactly once, whatever the number of _is_queryable and
\* _select_queryable_fields calls and of runs of get_docs; once a lookup is
\* there it is never replaced, and a call answered from it sends nothing.
C25_DescribedOnce ==
    /\ \A u \in DescribeUrls : calls[u] <= 1
    /\ SobjectsMemo # None => calls[DescribeUrl] = 1
    /\ FieldsComplete => \A n \in Range(RELEVANT_SOBJECTS) : calls[DescribeSobjectUrl(n)] = 1
C25_LookupStep ==
    /\ SobjectsMemo # None => /\ SobjectsMemo' = SobjectsMemo
                              /\ calls'[DescribeUrl] = calls[DescribeUrl]
    /\ FieldsComplete => /\ FieldsMemo' = FieldsMemo
                         /\ \A u \in DescribeUrls : calls'[u] = calls[u]
C25_SchemaLookupsComputedOnce == []C25_DescribedOnce /\ [][C25_LookupStep]_vars
\* The fourth entity of a second run of get_docs is being asked for: both
\* lookups have answered many calls, after one request to each endpoint
C25_Witness ==
    /\ sync.run = 2
    /\ sync.type = 4
    /\ sync.pc = "stream"
    /\ FieldsComplete
    /\ \A u \in DescribeUrls : calls[u] = 1


\* The columns of the query just built, and those of them that are fields
\* of the queried object itself
Columns == Range(Tail(result.text[1]))
OwnFields == Columns \cap AllFields
\* C26: every field name in a query a get_* or the reference cache sends is
\* listed by the describe response of the queried type.
C26_QueriesNameListedFieldsOnly ==
    result.op \in {"query", "cache_query"} => OwnFields \subseteq describe.fields[result.sobject]

\* An object of the global describe response that makes T queryable
MakesQueryable(x, T) ==
    /\ x.queryable
    /\ x.name \in Range(RELEVANT_SOBJECTS)
    /\ lower(x.name) = lower(T)
\* C27: _is_queryable(T) is true exactly when the global describe response
\* lists a queryable object that is one of the five relevant types and
\* whose name is T up to case; else it is false.
C27_IsQueryableExactly ==
    result.op = "is_queryable" =>
        (result.bool <=> \E x \in describe.sobjects : MakesQueryable(x, result.sobject))
\* True for an argument in upper case, and false for a listed object that
\* is not queryable
C27_Witness ==
    /\ result.op = "is_queryable"
    /\ \/ result.sobject = "CONTACT" /\ result.bool
       \/ /\ result.sobject = "Contact" /\ ~result.bool
          /\ \E x \in describe.sobjects : x.name = "Contact"

\* The fields the describe response of T lists, none for a T that is not
\* described
Listed(T) == IF T \in DOMAIN describe.fields THEN describe.fields[T] ELSE {}
ListedAs(T, f) == \E g \in Listed(T) : lower(g) = lower(f)
Lines == result.text
HasLine(keyword) == \E i \in DOMAIN Lines : Lines[i] # <<>> /\ Lines[i][1] = keyword
Selected == Tail(Lines[1])
\* C29: whatever with_id, with_default_metafields and with_fields were
\* called with, repeated names included, the SELECT line of build() has
\* each distinct field exactly once, and the query has a WHERE, an ORDER BY
\* or a LIMIT line only if that clause was set.
C29_EachFieldOnceClausesIfSet ==
    result.op = "build" =>
        /\ Lines[1][1] = "SELECT"
        /\ Range(Selected) = Range(builder.fields)
        /\ Len(Selected) = Cardinality(Range(builder.fields))
        /\ \A i \in DOMAIN Lines : Lines[i] # <<>>
        /\ HasLine("WHERE") => builder.where # NoLine
        /\ HasLine("ORDER BY") => builder.order_by # NoLine
        /\ HasLine("LIMIT") => builder.limit # NoLine
\* A field was added three times and another once; only the LIMIT clause
\* was set
C29_Witness ==
    /\ result.op = "build"
    /\ builder.fields = <<"Name", "Name", "Name">> \/ builder.fields = <<"Id", "Name", "Name">>
    /\ HasLine("LIMIT")
    /\ ~HasLine("WHERE")
    /\ Len(Selected) < Len(builder.fields)

\* Two queries with the same table, the same set of fields and the same
\* clauses
SameQuery(q1, q2) ==
    /\ Len(q1) = Len(q2)
    /\ q1[1][1] = q2[1][1]
    /\ Range(Tail(q1[1])) = Range(Tail(q2[1]))
    /\ \A i \in 2..Len(q1) : q1[i] = q2[i]
\* C30: build() called again on the same builder (which is in the state any
\* builder given the same inputs is in) returns a query with the same table,
\* the same set of fields and the same clauses, and build() leaves the
\* builder as it was.
C30_SameQueryAgain ==
    (result.op = "build" /\ result.before # <<>>) => SameQuery(result.before, result.text)
C30_BuildStep == result'.op = "build" => builder' = builder
C30_BuildIdempotentReadOnly == []C30_SameQueryAgain /\ [][C30_BuildStep]_vars
\* The second build() listed the columns in another order than the first
C30_Witness ==
    /\ result.op = "build"
    /\ result.before # <<>>
    /\ result.before # result.text
    /\ builder.where # NoLine
    /\ Cardinality(Range(builder.fields)) < Len(builder.fields)


\* A map_* has returned: the record it was called with and its document
MapReturned == result.op \in {"map", "map_again"}
MappedRecord == result.record
Doc == result.doc
\* The optional field of the record is not there; a reference that the
\* cache did not resolve is the empty dict
Absent(key) == key \notin DOMAIN MappedRecord \/ MappedRecord[key] = NoDict
\* The fields of a document with the field of the record each is made from
CommonSources ==
    {<<"body", "Description">>, <<"last_updated", "LastModifiedDate">>, <<"title", "Name">>}
OwnerIdSources ==
    {<<"owner", "Owner">>, <<"owner_url", "OwnerId">>, <<"thumbnail", "PhotoUrl">>,
     <<"email", "Email">>, <<"job_title", "Title">>, <<"lead_source", "LeadSource">>,
     <<"phone", "Phone">>}
Sources(n) ==
    CommonSources \cup
    CASE n = "Account" ->
             {<<"account_type", "Type">>, <<"address", "BillingAddress">>,
              <<"created_at", "CreatedDate">>, <<"opportunity_name", "Opportunities">>,
              <<"opportunity_status", "Opportunities">>, <<"opportunity_url", "Opportunities">>,
              <<"owner", "Owner">>, <<"owner_email", "Owner">>, <<"rating", "Rating">>,
              <<"website_url", "Website">>}
      [] n = "Opportunity" ->
             {<<"created_at", "CreatedDate">>, <<"next_step", "NextStep">>,
              <<"owner", "Owner">>, <<"owner_email", "Owner">>, <<"status", "StageName">>}
      [] n = "Contact" ->
             OwnerIdSources \cup {<<"account", "Account">>, <<"account_url", "AccountId">>}
      [] n = "Lead" ->
             OwnerIdSources \cup
             {<<"company", "Company">>, <<"converted_at", "ConvertedDate">>,
              <<"rating", "Rating">>, <<"status", "Status">>,
              <<"converted_account", "ConvertedAccount">>,
              <<"converted_account_url", "ConvertedAccount">>,
              <<"converted_contact", "ConvertedContact">>,
              <<"converted_contact_url", "ConvertedContact">>,
              <<"converted_opportunity", "ConvertedOpportunity">>,
              <<"converted_opportunity_url", "ConvertedOpportunity">>}
\* The parts of C31, one by one
SameDocumentAgain == result.op = "map_again" => result.again = Doc
RecordNotModified == MapReturned => result.after = MappedRecord
DefaultsForAbsent ==
    MapReturned =>
        /\ \A s \in Sources(result.sobject) : Absent(s[2]) => Doc[s[1]] \in {None, Empty}
        /\ (result.sobject = "Account" /\ Absent("Type")) => Doc.tags = <<None>>
\* C31: a map_* called twice on the same record returns the same document,
\* it leaves the record as it was, and a field of the document whose field
\* of the record is absent has the default, the empty string or None.
C31_MapperPureTotalDefaults ==
    /\ SameDocumentAgain
    /\ RecordNotModified
    /\ DefaultsForAbsent


\* The reference cache of the session, and the name of the entry of one of
\* its tables that an id of the record is the key of
Tables == ValueOf(client.sobjects_cache_by_type)
NameOfEntry(table, key) ==
    IF item(MappedRecord, key) \in DOMAIN Tables[table]
    THEN item(Tables[table][item(MappedRecord, key)], "Name")
    ELSE None
\* The text ends in "/" followed by the id
EndsInSlashId(text, id) ==
    /\ text # None
    /\ Len(text[1]) >= 2
    /\ SubSeq(text[1], Len(text[1]) - 1, Len(text[1])) = <<"/">> \o id[1]
\* C32: the account and the owner of a contact document are the names of
\* the entries of the Account and User tables under the record's AccountId
\* and OwnerId, None without such an entry; owner_url ends in "/" and the
\* OwnerId; the type is contact.
C32_ContactReferences ==
    (MapReturned /\ result.sobject = "Contact") =>
        /\ Doc.account = NameOfEntry("Account", "AccountId")
        /\ Doc.owner = NameOfEntry("User", "OwnerId")
        /\ "OwnerId" \in DOMAIN MappedRecord => EndsInSlashId(Doc.owner_url, MappedRecord.OwnerId)
        /\ Doc.type = Str("contact")
\* The example of the spec: {Id: c1, Name: Jane, AccountId: a1, OwnerId: u1}
\* with the caches {a1: Acme} and {u1: Bob}
C32_Witness ==
    /\ MapReturned
    /\ result.sobject = "Contact"
    /\ DOMAIN MappedRecord = {"Id", "Name", "AccountId", "OwnerId", "Account", "Owner"}
    /\ Doc.account = Str("Acme")
    /\ Doc.owner = Str("Bob")
    /\ Doc.owner_url = Text(<<base_url, "/", "u1">>)
    /\ Doc.type = Str("contact")

\* The url of a lead document for a record the lead was converted to
ConvertedUrls ==
    {<<"converted_account_url", "ConvertedAccount">>,
     <<"converted_contact_url", "ConvertedContact">>,
     <<"converted_opportunity_url", "ConvertedOpportunity">>}
\* C33: each converted_* url of a lead document is there only when the
\* linked record has an Id, and is then made of the Id of that record.
C33_ConvertedUrlsOfOwnRecord ==
    (MapReturned /\ result.sobject = "Lead") =>
        \A u \in ConvertedUrls :
            LET id == item(MappedRecord[u[2]], "Id")
            IN  Doc[u[1]] = IF truthy(id) THEN url_of(id) ELSE None


\* The request of task c that is waiting for its response went out with a
\* token a successful exchange has set
CarriesIssuedToken(c) == task[c].sentTok \in 1..issued

\* C34: no describe or query request is sent while the credential is absent:
\* every request in flight, a first one or one sent again after a refresh
\* that failed or that found another refresh in progress, carries a token
\* that a successful exchange has set.
C34_RequestsCarryToken ==
    \A c \in Callers : task[c].pc = "await" => CarriesIssuedToken(c)

\* Task c takes the response to its request in this step, a 401, and the
\* handler leaves no token where there was one
ClearsAfter401(c) ==
    /\ task[c].pc = "await"
    /\ task'[c] # task[c]
    /\ token # NoToken
    /\ token' = NoToken

\* C35: the handler of a 401 clears only the token that was rejected: a token
\* that a successful refresh has set is not cleared because of the 401 that
\* answers a request sent with an earlier token.
C35_ClearStep ==
    \A c \in Callers : ClearsAfter401(c) => task[c].sentTok = token
C35_OnlyRejectedTokenCleared == [][C35_ClearStep]_vars


\* The tasks whose generate() is running: inside the with block, waiting for
\* the answer of the token endpoint
Generating == {c \in Callers : task[c].pc = "gen_wait"}

\* The lock is held by the task whose generate() is running, and by nobody
\* when none is
LockHeldByGenerating == Generating = IF lock = Free THEN {} ELSE {lock}

\* The ways out of generate(): the exception get_token's handler saw last
GenerateExits ==
    {NoExc, "InvalidCredentialsException", "TokenFetchException", "Exception"}

\* A step in which generate() of task c is left frees the lock, and a
\* generate() gets LockedException only while another one is running
C36_LockStep ==
    \A c \in Callers :
        /\ (c \in Generating /\ task'[c].pc # "gen_wait") => lock' = Free
        /\ (GenerateCalled(c) /\ task'[c].locked) => Generating \ {c} # {}

\* C36: the refresh lock is held only while a generate() is running: however
\* generate() is left (token set, InvalidCredentialsException,
\* TokenFetchException, any other error) the lock is free afterwards, and
\* LockedException is raised only while a refresh is in flight.
C36_LockOnlyWhileGenerating == []LockHeldByGenerating /\ [][C36_LockStep]_vars

\* generate() of t1 was left with an exception, no refresh is in flight, the
\* lock is free and t2's generate() has got it after that
C36_Witness ==
    /\ task["t1"].pc \in {"gt_sleep", "gj_sleep", "done"}
    /\ task["t1"].exc \in GenerateExits \ {NoExc}
    /\ ~task["t1"].locked
    /\ lock = "t2"
    /\ task["t2"].pc = "gen_wait"


\* C37: one call of _get_json causes at most RETRIES token exchanges in all:
\* the refreshes of its 401 handling share the three attempts of the call,
\* they are not multiplied by the attempts of get_token.
C37_ExchangesWithinCallBudget ==
    Sess.op = "get_json" => obs.posts <= RETRIES


\* sobjects_cache_by_type() is called for the contact or lead at hand and
\* finds its dict memoised: it returns it as it is
CacheReturnsMemoised ==
    /\ sync.pc = "records"
    /\ EntityType \in EnrichedTypes
    /\ cache_is_memoised(client)

\* C38: whenever sobjects_cache_by_type() returns, its result has an entry
\* for each of Account, Contact, Opportunity and User, also on a call made
\* after an earlier call failed while it was building the cache.
C38_CacheReturnedComplete ==
    CacheReturnsMemoised =>
        Range(CacheTypes) \subseteq DOMAIN ValueOf(client.sobjects_cache_by_type)


\* queryable_sobject_fields() is called for the query of the get_* at hand
\* and finds its dict memoised: it returns it as it is
FieldsReturnMemoised ==
    /\ sync.pc = "query"
    /\ client.queryable_sobject_fields # None

\* C39: whenever queryable_sobject_fields() returns, its result has an entry
\* for every relevant type: a describe that failed for one type is not
\* remembered as "no permitted fields" by a later query build of the session.
C39_FieldsReturnedComplete ==
    FieldsReturnMemoised =>
        Range(RELEVANT_SOBJECTS) \subseteq DOMAIN ValueOf(client.queryable_sobject_fields)


\* The exceptions the retry wrapper of _get_json retries
RetriedExceptions == {"Exception", "ClientResponseError", "RequestError"}
\* The request for the page after the served ones
PageUrl == IF served = <<>> THEN QueryUrl ELSE next_records_url(LastServed)

\* The fetch at hand is attempt number retry of its own call, one request per
\* attempt; the stream gives up on a retried exception only when the page at
\* hand was requested RETRIES times
C40_BudgetOfPage ==
    Sess.op = "stream" =>
        /\ Sess.retry \in 1..RETRIES
        /\ Sess.reqs = Sess.retry
        /\ (Sess.pc = "done" /\ Sess.exc \in RetriedExceptions) => Sess.reqs = RETRIES
\* The fetch of a later page starts with its first attempt, whatever failed
\* before; a retry sends the request of the failing page again, and nothing
\* yielded is yielded again
C40_PageStep ==
    /\ (Sess.pc = "yielded" /\ Sess'.pc = "await") =>
           /\ Sess'.retry = 1
           /\ Sess'.reqs = 1
           /\ Sess'.sentUrl = next_records_url(Sess.page)
    /\ (Sess.pc = "gj_sleep" /\ Sess'.pc = "await") =>
           /\ Sess'.retry = Sess.retry + 1
           /\ Sess'.sentUrl = Sess.sentUrl
           /\ Sess'.sentParams = Sess.sentParams
           /\ Sess'.sentUrl = PageUrl
           /\ yielded' = yielded

\* C40: each page fetch of a stream has its own budget of RETRIES attempts:
\* the failures of earlier pages take nothing from the attempts of a later
\* page, and a retry asks again for the failing page only, never for a page
\* already yielded.
C40_BudgetPerPage == []C40_BudgetOfPage /\ [][C40_PageStep]_vars

\* The first page came with its third request, and the second page is being
\* requested for the third time after two failures of its own
C40_Witness ==
    /\ Sess.op = "stream"
    /\ Sess.pc = "await"
    /\ Len(served) = 1
    /\ obs.failed = 4
    /\ Sess.retry = RETRIES
    /\ Sess.sentUrl = next_records_url(LastServed)

====
